---- MODULE Spec2Model ----
(***************************************************************************)
(* SockStream: the upstream proxy pool (internal/proxy/transport.go).      *)
(* State: the pool built by NewProxyPool, the health metadata of every     *)
(* entry, the selection counter, the dispatches (RoundTrip) in flight and  *)
(* the probe tasks of the health check.  Entries are named by their        *)
(* 1-based position in ProxyPool.entries; an entry's transport is built    *)
(* once and never replaced, so the position also names the transport.      *)
(***************************************************************************)
EXTENDS Integers, Sequences, FiniteSets, TLC

\* ---------------------------------------------------------------- bounds
MaxEntries == 3
MaxHealthEntries == 2
MaxCounter == 6
MaxBodyLen == 1
MaxTime == 2
NumRequests == 2
MaxWrap == 3
AddrBits == 2
MaxRanges == 2
MaxXFFLen == 3
MaxHostLen == 2

MaxWrites == 2

MaxAdd == 2

\* ------------------------------------------------------- configurations
\* proxy.urls element i of a well-formed list: scheme://p<i>
Schemes == <<"socks5", "http", "https">>

GoodURL(i) == [scheme |-> Schemes[((i - 1) % 3) + 1], host |-> i, user |-> ""]

BadSchemeURL == [scheme |-> "ftp", host |-> 1, user |-> ""]

NoHostURL == [scheme |-> "socks5", host |-> 0, user |-> ""]

GoodURLs(n) == [i \in 1..n |-> GoodURL(i)]

ProxyConfig(type, address, urls, rotation) ==
    [Type |-> type, Address |-> address, Auth |-> [Username |-> ""],
     URLs |-> urls, Rotation |-> rotation]

\* the configurations NewProxyPool is run on
Configs ==
    {ProxyConfig("", 0, GoodURLs(n), rot) :
        n \in 0..MaxEntries, rot \in {"", "round-robin", "random"}}
    \cup {ProxyConfig("direct", 0, <<>>, ""),
          ProxyConfig("socks5", 9, <<>>, ""),
          ProxyConfig("socks5", 0, <<>>, ""),
          ProxyConfig("http", 9, GoodURLs(2), "Random"),
          ProxyConfig("", 0, <<BadSchemeURL>>, ""),
          ProxyConfig("", 0, <<GoodURL(1), BadSchemeURL>>, ""),
          ProxyConfig("", 0, <<GoodURL(1), NoHostURL>>, "")}

\* strings.ToLower on the strings that occur in the configurations
ToLower(s) ==
    CASE s = "Random" -> "random"
      [] s = "RANDOM" -> "random"
      [] s = "Round-Robin" -> "round-robin"
      [] s = "SOCKS5" -> "socks5"
      [] s = "HTTP" -> "http"
      [] s = "HTTPS" -> "https"
      [] s = "DIRECT" -> "direct"
      [] s = "Direct" -> "direct"
      [] OTHER -> s

\* url.Parse: the scheme comes back in lower case; a host below 0 stands for
\* a text that does not parse (a port that is not a number)
urlParse(u) ==
    IF u.host < 0
    THEN [ok |-> FALSE, Scheme |-> "", Host |-> 0, User |-> ""]
    ELSE [ok |-> TRUE, Scheme |-> ToLower(u.scheme), Host |-> u.host, User |-> u.user]

\* config.ParseProxyURL: only the schemes socks5, http, https are accepted
ParseProxyURL(u) ==
    LET parsed == urlParse(u)
        proxyType == ToLower(parsed.Scheme)
        none == [Type |-> "", Address |-> 0, Username |-> ""]
    IN  IF ~parsed.ok
        THEN [ok |-> FALSE, err |-> "invalid proxy URL", p |-> none]
        ELSE IF proxyType \in {"socks5", "http", "https"}
        THEN [ok |-> TRUE, err |-> "",
              p |-> [Type |-> proxyType, Address |-> parsed.Host, Username |-> parsed.User]]
        ELSE [ok |-> FALSE, err |-> "unsupported proxy scheme", p |-> none]

\* the legacy fields are used whenever a type is set, URL list or not
GetProxiesLegacyFirst(c) ==
    LET parsed == [i \in 1..Len(c.URLs) |-> ParseProxyURL(c.URLs[i])]
        fromURLs == [i \in 1..Len(c.URLs) |-> parsed[i].p]
    IN  IF \E i \in 1..Len(c.URLs) : ~parsed[i].ok
        THEN [ok |-> FALSE, proxies |-> <<>>]
        ELSE IF c.Type # "" /\ c.Type # "direct"
        THEN [ok |-> TRUE,
              proxies |-> <<[Type |-> ToLower(c.Type), Address |-> c.Address,
                             Username |-> c.Auth.Username]>>]
        ELSE [ok |-> TRUE, proxies |-> fromURLs]

\* config.ProxyConfig.GetProxies: the URL list wins, else the legacy fields
GetProxies(c) ==
    LET parsed == [i \in 1..Len(c.URLs) |-> ParseProxyURL(c.URLs[i])]
        fromURLs == [i \in 1..Len(c.URLs) |-> parsed[i].p]
    IN  IF \E i \in 1..Len(c.URLs) : ~parsed[i].ok
        THEN [ok |-> FALSE, proxies |-> <<>>]
        ELSE IF Len(fromURLs) = 0 /\ c.Type # "" /\ c.Type # "direct"
        THEN [ok |-> TRUE,
              proxies |-> <<[Type |-> ToLower(c.Type), Address |-> c.Address, Username |-> c.Auth.Username]>>]
        ELSE [ok |-> TRUE, proxies |-> fromURLs]

\* newProxyTransport succeeds for a known type with a non-empty address
\* (address 0 stands for the empty string)
newProxyTransport(p) ==
    CASE p.Type \in {"http", "https"} -> p.Address # 0
      [] p.Type = "socks5" -> p.Address # 0
      [] OTHER -> FALSE

DirectProxy == [Type |-> "direct", Address |-> 0, Username |-> ""]

NilPool == [ok |-> FALSE, entries |-> <<>>, rotation |-> "", isDirect |-> FALSE]

\* a descriptor whose transport cannot be built is left out of the pool
NewProxyPoolSkipBad(c) ==
    LET got == GetProxies(c)
        rot == IF ToLower(c.Rotation) = "" THEN "round-robin" ELSE ToLower(c.Rotation)
        good == SelectSeq(got.proxies, newProxyTransport)
    IN  IF ~got.ok THEN NilPool
        ELSE IF Len(got.proxies) = 0
        THEN [ok |-> TRUE, entries |-> <<DirectProxy>>, rotation |-> rot, isDirect |-> TRUE]
        ELSE [ok |-> TRUE, entries |-> good, rotation |-> rot, isDirect |-> FALSE]

\* NewProxyPool: the pool, or an error (ok = FALSE) and no pool
NewProxyPool(c) ==
    LET got == GetProxies(c)
        rot == IF ToLower(c.Rotation) = "" THEN "round-robin" ELSE ToLower(c.Rotation)
    IN  IF ~got.ok THEN NilPool
        ELSE IF Len(got.proxies) = 0
        THEN [ok |-> TRUE, entries |-> <<DirectProxy>>, rotation |-> rot, isDirect |-> TRUE]
        ELSE IF \E i \in 1..Len(got.proxies) : ~newProxyTransport(got.proxies[i])
        THEN NilPool
        ELSE [ok |-> TRUE, entries |-> got.proxies, rotation |-> rot, isDirect |-> FALSE]


\* ----------------------------------------------------------------- state
VARIABLES
    cfg,        \* the proxy spec NewProxyPool is called with
    phase,      \* "new" before NewProxyPool, then "ok" or "failed"
    entries,    \* ProxyPool.entries: the descriptors, in pool order
    rotation,   \* ProxyPool.rotation
    isDirect,   \* ProxyPool.isDirect
    counter,    \* ProxyPool.counter
    healthy,    \* proxyEntry.healthy, per entry
    lastError,  \* proxyEntry.lastError, per entry ("" when none)
    lastCheck,  \* proxyEntry.lastCheck, per entry (0 is the zero time)
    now,        \* time.Now()
    req,        \* the RoundTrip calls, per caller
    hc,         \* StartHealthCheck: "off", "direct" (returned at once), "on"
    round,      \* checkAllProxies: "idle" or "running"
    probe,      \* the checkProxy task of every entry, with the record it logged
    ntResult,   \* what the last nextTransport call returned (0 before any)
    selSeq,     \* the entries chosen by the round-robin selections so far
    clean,      \* every selection so far was made over the full entry list
    logger,     \* ProxyPool.logger is set (not nil)
    summary,    \* logHealthSummary: the entries counted so far and the counts
    emitted,    \* the summary records logged since the current round began
    ctxDone,    \* the context handed to StartHealthCheck is cancelled
    stopClosed, \* Stop has closed stopCh
    call,       \* a function applied on its own: its arguments and result
    srv         \* the inbound server: its configuration and the request in hand

vars == <<cfg, phase, entries, rotation, isDirect, counter, healthy, lastError,
          lastCheck, now, req, hc, round, probe, ntResult, selSeq, clean,
          logger, summary, emitted, ctxDone, stopClosed, call, srv>>

poolVars == <<cfg, phase, entries, rotation, isDirect>>

healthVars == <<healthy, lastError, lastCheck>>

probeVars == <<hc, round, probe>>

logVars == <<logger, summary, emitted>>

stopVars == <<ctxDone, stopClosed>>

appVars == <<call, srv>>

\* the pool, its callers and its health check
proxyVars == <<poolVars, counter, healthVars, now, req, probeVars, ntResult, selSeq,
               clean, logVars, stopVars>>

Requests == 1..NumRequests

Indices == 1..Len(entries)

\* ------------------------------------------------------ errors, bodies
\* the errors a transport returns, named by what they are in Go
TransportErrors == {"ctxDeadline", "netTimeout", "refused"}

\* err.Error()
ErrorMsg(e) ==
    CASE e = "ctxDeadline" -> "context deadline exceeded"
      [] e = "osDeadline" -> "i/o timeout"
      [] e = "netTimeout" -> "dial tcp: i/o timeout"
      [] e = "refused" -> "connect: connection refused"
      [] OTHER -> e

\* every error is taken for a timeout
isTimeoutErrorAny(e) == TRUE

\* An error value is its Unwrap chain, outermost first; nil is the empty
\* chain.  The wrappers: *url.Error, *net.OpError, fmt.Errorf("%w").  The
\* ends of a chain: context.DeadlineExceeded, os.ErrDeadlineExceeded, a
\* net.Error whose Timeout() is true (a DNS or dial timeout), ECONNREFUSED
\* (a net.Error whose Timeout() is false) and io.EOF.
ErrWrappers == {"url", "op", "wrap"}

ErrLeaves == {"ctxDeadline", "osDeadline", "netTimeout", "refused", "eof"}

\* the chains with at most n wrappers
ErrChainsUpTo(n) ==
    {<<>>} \cup UNION {{w \o <<l>> : w \in [1..k -> ErrWrappers], l \in ErrLeaves} : k \in 0..n}

\* the error has the methods of net.Error (Timeout and Temporary)
IsNetError(kind) == kind \notin {"wrap", "eof"}

\* err.Timeout() of a chain whose outermost error is a net.Error: url.Error
\* and net.OpError ask the error they hold, by type assertion on it alone
RECURSIVE Timeout(_)
Timeout(err) ==
    CASE Head(err) \in {"ctxDeadline", "osDeadline", "netTimeout"} -> TRUE
      [] Head(err) \in {"url", "op"} ->
             /\ Len(err) > 1
             /\ IsNetError(err[2])
             /\ Timeout(Tail(err))
      [] OTHER -> FALSE

\* errors.Is(err, target) for a sentinel target
ErrorsIs(err, target) == \E i \in 1..Len(err) : err[i] = target

\* errors.As: the position of the first error of the chain of one of the
\* kinds, 0 when there is none
ErrorsAs(err, kinds) ==
    IF \E i \in 1..Len(err) : err[i] \in kinds
    THEN CHOOSE i \in 1..Len(err) :
            /\ err[i] \in kinds
            /\ \A j \in 1..(i - 1) : err[j] \notin kinds
    ELSE 0

NetErrorKinds == {"ctxDeadline", "osDeadline", "netTimeout", "refused", "url", "op"}

\* isTimeoutError on an error chain: lines 367-395
RECURSIVE isTimeoutErrorChain(_)
isTimeoutErrorChain(err) ==
    IF err = <<>> THEN FALSE
    ELSE IF ErrorsIs(err, "ctxDeadline") THEN TRUE
    ELSE IF ErrorsIs(err, "osDeadline") THEN TRUE
    ELSE LET n == ErrorsAs(err, NetErrorKinds)
             u == ErrorsAs(err, {"url"})
         IN  IF n # 0 /\ Timeout(SubSeq(err, n, Len(err))) THEN TRUE
             ELSE IF u # 0 THEN isTimeoutErrorChain(SubSeq(err, u + 1, Len(err)))
             ELSE FALSE

\* the chains of the errors a transport returns
ErrChain(e) ==
    CASE e = "ctxDeadline" -> <<"ctxDeadline">>
      [] e = "osDeadline" -> <<"op", "osDeadline">>
      [] e = "netTimeout" -> <<"op", "netTimeout">>
      [] e = "refused" -> <<"op", "refused">>
      [] OTHER -> <<"eof">>

isTimeoutError(e) == isTimeoutErrorChain(ErrChain(e))

Statuses == {200, 502}

Resp(s) == [kind |-> "resp", status |-> s, err |-> ""]

Fail(e) == [kind |-> "err", status |-> 0, err |-> e]

NoOutcome == [kind |-> "none", status |-> 0, err |-> ""]

DispatchOutcomes == {Resp(s) : s \in Statuses} \cup {Fail(e) : e \in TransportErrors}

Bytes == {1, 2}

ByteSeqs == UNION {[1..n -> Bytes] : n \in 0..MaxBodyLen}

NilBody == [kind |-> "nil", bytes |-> <<>>, fails |-> FALSE]

\* req.Body: nil, http.NoBody, or a reader over some bytes which may fail
Bodies ==
    {[kind |-> "nil", bytes |-> <<>>, fails |-> FALSE],
     [kind |-> "NoBody", bytes |-> <<>>, fails |-> FALSE]}
    \cup {[kind |-> "reader", bytes |-> b, fails |-> f] : b \in ByteSeqs, f \in BOOLEAN}

NoResult == [kind |-> "none", status |-> 0, err |-> "", wrap |-> "", via |-> 0]

IdleReq ==
    [pc |-> "idle", body |-> NilBody,
     origPos |-> 0, poolReads |-> 0, hasBuf |-> FALSE, bodyBytes |-> <<>>,
     cur |-> "orig", curPos |-> 0,
     entries |-> <<>>, fallback |-> FALSE, tried |-> {}, idx |-> 0,
     attempts |-> <<>>, restored |-> {}, result |-> NoResult]

\* --------------------------------------------------------- pool helpers
Size == Len(entries)

HealthyCount == Cardinality({i \in Indices : healthy[i]})

\* the positions of s, in order, that satisfy Keep
RECURSIVE Filter(_, _)
Filter(s, keep) ==
    IF s = <<>> THEN <<>>
    ELSE IF Head(s) \in keep THEN <<Head(s)>> \o Filter(Tail(s), keep)
    ELSE Filter(Tail(s), keep)

AllEntries == [i \in 1..Len(entries) |-> i]

\* the snapshot is the whole pool, healthy or not
getHealthyEntriesAll == AllEntries

\* no fallback: the healthy entries, even when there is none
getHealthyEntriesNoFallback == Filter(AllEntries, {i \in Indices : healthy[i]})

\* getHealthyEntries: the healthy entries in pool order, or all when none is
getHealthyEntries ==
    LET healthyEntries == Filter(AllEntries, {i \in Indices : healthy[i]})
    IN  IF Len(healthyEntries) = 0 THEN AllEntries ELSE healthyEntries

RECURSIVE Pow2(_)
Pow2(n) == IF n = 0 THEN 1 ELSE 2 * Pow2(n - 1)

\* the width of the selection counter (atomic.Uint64), scaled down; int has
\* the same width on the 64-bit build
CounterBits == 4

\* arithmetic of the unsigned counter: modulo 2^CounterBits
Uint64(v) == v % Pow2(CounterBits)

\* the conversion int(v) of an unsigned value: two's complement
ToInt(v) == IF v >= Pow2(CounterBits - 1) THEN v - Pow2(CounterBits) ELSE v

\* Go's a % n: the remainder has the sign of a
GoRem(a, n) == IF a >= 0 THEN a % n ELSE 0 - ((0 - a) % n)

\* int(p.counter.Add(1)-1) % n, with ctr the counter before the Add
roundRobinIndex(ctr, n) ==
    GoRem(ToInt(Uint64(Uint64(ctr + 1) + Pow2(CounterBits) - 1)), n)

\* the run-time panic of an index out of range
Panic == 0 - 1

\* the counter is used after the Add, not before
selectProxyIndexAfterAdd(snap, tried, ctr, rnd) ==
    LET available == Filter([i \in 1..Len(snap) |-> i], (1..Len(snap)) \ tried)
    IN  IF Len(available) = 0 THEN 0
        ELSE IF rotation = "random" THEN available[rnd + 1]
        ELSE available[((ctr + 1) % Len(available)) + 1]

\* the tried set is not looked at
selectProxyIndexAny(snap, tried, ctr, rnd) ==
    LET available == [i \in 1..Len(snap) |-> i]
    IN  IF Len(available) = 0 THEN 0
        ELSE IF rotation = "random" THEN available[rnd + 1]
        ELSE available[(ctr % Len(available)) + 1]

\* selectProxyIndex: a 1-based position of snap that is not in tried, 0
\* (Go: -1) when none is left, or Panic when available[idx] is out of range;
\* ctr is the counter before the Add, rnd the value of rand.Intn
selectProxyIndex(snap, tried, ctr, rnd) ==
    LET available == Filter([i \in 1..Len(snap) |-> i], (1..Len(snap)) \ tried)
        idx == IF rotation = "random" THEN rnd
               ELSE roundRobinIndex(ctr, Len(available))
    IN  IF Len(available) = 0 THEN 0
        ELSE IF idx \in 0..(Len(available) - 1) THEN available[idx + 1]
        ELSE Panic

\* the flag is not stored
setHealthyNoFlag(e, h, err) ==
    /\ healthy' = healthy
    /\ lastCheck' = [lastCheck EXCEPT ![e] = now]
    /\ lastError' = [lastError EXCEPT ![e] = err]

\* proxyEntry.setHealthy
setHealthy(e, h, err) ==
    /\ healthy' = [healthy EXCEPT ![e] = h]
    /\ lastCheck' = [lastCheck EXCEPT ![e] = now]
    /\ lastError' = [lastError EXCEPT ![e] = err]

\* logHealthSummary before its loop: nothing counted
NoSummary == [i |-> 0, healthy |-> 0, unhealthy |-> 0]

\* ------------------------------------------------------------------ Init
\* no function is being applied
NoCall == [fn |-> "", arg |-> <<>>, res |-> <<>>, done |-> FALSE]

\* no server is set up
NoServer == [pc |-> "off"]

\* the pool before NewProxyPool
IdlePool ==
    /\ phase = "new"
    /\ entries = <<>>
    /\ rotation = ""
    /\ isDirect = FALSE
    /\ counter = 0
    /\ healthy = <<>>
    /\ lastError = <<>>
    /\ lastCheck = <<>>
    /\ now = 1
    /\ req = [r \in Requests |-> IdleReq]
    /\ hc = "off"
    /\ round = "idle"
    /\ probe = <<>>
    /\ ntResult = 0
    /\ selSeq = <<>>
    /\ clean = TRUE
    /\ logger = FALSE
    /\ summary = NoSummary
    /\ emitted = 0
    /\ ctxDone = FALSE
    /\ stopClosed = FALSE

Init ==
    /\ cfg \in Configs
    /\ IdlePool
    /\ call = NoCall
    /\ srv = NoServer

\* NewProxyPool(cfg)
Construct ==
    /\ phase = "new"
    /\ LET pool == NewProxyPool(cfg)
       IN  /\ phase' = IF pool.ok THEN "ok" ELSE "failed"
           /\ entries' = pool.entries
           /\ rotation' = pool.rotation
           /\ isDirect' = pool.isDirect
           /\ healthy' = [i \in 1..Len(pool.entries) |-> TRUE]
           /\ lastError' = [i \in 1..Len(pool.entries) |-> ""]
           /\ lastCheck' = [i \in 1..Len(pool.entries) |-> 0]
           /\ probe' = [i \in 1..Len(pool.entries) |-> [pc |-> "idle", was |-> FALSE, got |-> NoOutcome, said |-> ""]]
    /\ UNCHANGED <<cfg, counter, now, req, hc, round, ntResult, selSeq, clean, logVars, stopVars, appVars>>

\* the clock advances
Tick ==
    /\ now < MaxTime
    /\ now' = now + 1
    /\ UNCHANGED <<poolVars, counter, healthVars, req, probeVars, ntResult, selSeq,
                   clean, logVars, stopVars, appVars>>


\* ------------------------------------------------------------- RoundTrip
\* io.ReadAll on a reader over bytes that stands at position pos
ReadAll(bytes, pos) == SubSeq(bytes, pos + 1, Len(bytes))

\* what a transport reads from req.Body during an attempt
Received(q) ==
    IF q.cur = "buf" THEN ReadAll(q.bodyBytes, q.curPos)
    ELSE ReadAll(q.body.bytes, q.origPos)

\* req.Body after the transport has read it
Consumed(q) ==
    IF q.cur = "buf" THEN [q EXCEPT !.curPos = Len(q.bodyBytes)]
    ELSE [q EXCEPT !.origPos = Len(q.body.bytes)]

Done(q, res) == [q EXCEPT !.pc = "done", !.result = res]

\* the body is not restored before an attempt
RestoreBodyNever(q) == q

\* "Restore body for retry": a fresh reader over bodyBytes, when buffered
RestoreBody(q) ==
    IF q.hasBuf THEN [q EXCEPT !.cur = "buf", !.curPos = 0] ELSE q

\* the fast path is taken by a direct pool only
BeginDirectOnly(q, body, snap) ==
    LET q0 == [q EXCEPT !.body = body, !.entries = snap, !.fallback = (HealthyCount = 0)]
    IN  IF Len(snap) = 0
        THEN Done(q0, [kind |-> "err", status |-> 0, err |-> "none",
                       wrap |-> "no proxies available", via |-> 0])
        ELSE IF isDirect
        THEN [q0 EXCEPT !.pc = "fast"]
        ELSE IF body.kind = "reader"
        THEN IF body.fails
             THEN Done([q0 EXCEPT !.poolReads = 1, !.origPos = Len(body.bytes)],
                       [kind |-> "err", status |-> 0, err |-> "readErr",
                        wrap |-> "read request body", via |-> 0])
             ELSE [q0 EXCEPT !.pc = "select", !.poolReads = 1,
                             !.origPos = Len(body.bytes),
                             !.hasBuf = TRUE, !.bodyBytes = ReadAll(body.bytes, 0)]
        ELSE [q0 EXCEPT !.pc = "select"]

\* the part of RoundTrip before the loop: snapshot, fast-path test, buffering
Begin(q, body, snap) ==
    LET q0 == [q EXCEPT !.body = body, !.entries = snap, !.fallback = (HealthyCount = 0)]
    IN  IF Len(snap) = 0
        THEN Done(q0, [kind |-> "err", status |-> 0, err |-> "none",
                       wrap |-> "no proxies available", via |-> 0])
        ELSE IF Len(snap) = 1 \/ isDirect
        THEN [q0 EXCEPT !.pc = "fast"]
        ELSE IF body.kind = "reader"
        THEN IF body.fails
             THEN Done([q0 EXCEPT !.poolReads = 1, !.origPos = Len(body.bytes)],
                       [kind |-> "err", status |-> 0, err |-> "readErr",
                        wrap |-> "read request body", via |-> 0])
             ELSE [q0 EXCEPT !.pc = "select", !.poolReads = 1,
                             !.origPos = Len(body.bytes),
                             !.hasBuf = TRUE, !.bodyBytes = ReadAll(body.bytes, 0)]
        ELSE [q0 EXCEPT !.pc = "select"]

\* bookkeeping of the round-robin selections made over the full entry list
RecordSelection(full, entry) ==
    IF rotation = "random" THEN UNCHANGED <<selSeq, clean>>
    ELSE IF clean /\ full
    THEN selSeq' = Append(selSeq, entry) /\ clean' = TRUE
    ELSE selSeq' = <<>> /\ clean' = FALSE

\* RoundTrip is called with a body out of bodies: lines 258-277
RoundTripBeginWith(r, bodies) ==
    /\ phase = "ok"
    /\ req[r].pc = "idle"
    /\ \E body \in bodies :
          req' = [req EXCEPT ![r] = Begin(IdleReq, body, getHealthyEntries)]
    /\ UNCHANGED <<poolVars, counter, healthVars, now, probeVars, ntResult, selSeq,
                   clean, logVars, stopVars, appVars>>

RoundTripBegin(r) == RoundTripBeginWith(r, Bodies)

\* a request without a body (GET)
RoundTripBeginGet(r) == RoundTripBeginWith(r, {NilBody})

\* one pass of the loop head: selectProxyIndex, tried[idx] = true, body restored
RoundTripSelect(r) ==
    /\ req[r].pc = "select"
    /\ rotation = "random" \/ counter < MaxCounter
    /\ LET q == req[r]
           nAvail == Len(q.entries) - Cardinality(q.tried)
       IN  \E rnd \in 0..(nAvail - 1) :
             LET idx == selectProxyIndex(q.entries, q.tried, counter, rnd)
             IN  /\ idx # 0
                 /\ req' = [req EXCEPT ![r] =
                              RestoreBody([q EXCEPT !.pc = "attempt", !.idx = idx,
                                                    !.tried = q.tried \cup {idx}])]
                 /\ counter' = IF rotation = "random" THEN counter ELSE Uint64(counter + 1)
                 /\ RecordSelection(q.entries = AllEntries /\ q.tried = {}, q.entries[idx])
    /\ UNCHANGED <<poolVars, healthVars, now, probeVars, ntResult, logVars, stopVars, appVars>>

\* a successful attempt sets the entry healthy
RoundTripAttemptHeals(r, outs) ==
    /\ req[r].pc = "attempt"
    /\ \E out \in outs :
         LET q == req[r]
             entry == q.entries[q.idx]
             q1 == [Consumed(q) EXCEPT !.attempts =
                       Append(q.attempts, [entry |-> entry, out |-> out, recv |-> Received(q)])]
         IN  IF out.kind = "resp"
             THEN /\ req' = [req EXCEPT ![r] =
                       Done(q1, [kind |-> "resp", status |-> out.status, err |-> "",
                                 wrap |-> "", via |-> entry])]
                  /\ setHealthy(entry, TRUE, "")
             ELSE IF ~isTimeoutError(out.err)
             THEN /\ req' = [req EXCEPT ![r] =
                       Done(q1, [kind |-> "err", status |-> 0, err |-> out.err,
                                 wrap |-> "", via |-> entry])]
                  /\ UNCHANGED healthVars
             ELSE /\ setHealthy(entry, FALSE, ErrorMsg(out.err))
                  /\ req' = [req EXCEPT ![r] =
                       IF Cardinality(q.tried) < Len(q.entries)
                       THEN [q1 EXCEPT !.pc = "select", !.restored = q.restored \ {entry}]
                       ELSE Done([q1 EXCEPT !.restored = q.restored \ {entry}],
                                 [kind |-> "err", status |-> 0, err |-> out.err,
                                  wrap |-> "all proxies failed", via |-> entry])]
    /\ UNCHANGED <<poolVars, counter, now, probeVars, ntResult, selSeq, clean, logVars, stopVars, appVars>>

\* every failed attempt marks the entry, timeout or not
RoundTripAttemptMarkAny(r, outs) ==
    /\ req[r].pc = "attempt"
    /\ \E out \in outs :
         LET q == req[r]
             entry == q.entries[q.idx]
             q1 == [Consumed(q) EXCEPT !.attempts =
                       Append(q.attempts, [entry |-> entry, out |-> out, recv |-> Received(q)])]
         IN  IF out.kind = "resp"
             THEN /\ req' = [req EXCEPT ![r] =
                       Done(q1, [kind |-> "resp", status |-> out.status, err |-> "",
                                 wrap |-> "", via |-> entry])]
                  /\ UNCHANGED healthVars
             ELSE IF ~isTimeoutError(out.err)
             THEN /\ req' = [req EXCEPT ![r] =
                       Done(q1, [kind |-> "err", status |-> 0, err |-> out.err,
                                 wrap |-> "", via |-> entry])]
                  /\ setHealthy(entry, FALSE, ErrorMsg(out.err))
             ELSE /\ setHealthy(entry, FALSE, ErrorMsg(out.err))
                  /\ req' = [req EXCEPT ![r] =
                       IF Cardinality(q.tried) < Len(q.entries)
                       THEN [q1 EXCEPT !.pc = "select", !.restored = q.restored \ {entry}]
                       ELSE Done([q1 EXCEPT !.restored = q.restored \ {entry}],
                                 [kind |-> "err", status |-> 0, err |-> out.err,
                                  wrap |-> "all proxies failed", via |-> entry])]
    /\ UNCHANGED <<poolVars, counter, now, probeVars, ntResult, selSeq, clean, logVars, stopVars, appVars>>

\* a timeout is retried without marking the entry
RoundTripAttemptNoMark(r, outs) ==
    /\ req[r].pc = "attempt"
    /\ \E out \in outs :
         LET q == req[r]
             entry == q.entries[q.idx]
             q1 == [Consumed(q) EXCEPT !.attempts =
                       Append(q.attempts, [entry |-> entry, out |-> out, recv |-> Received(q)])]
         IN  IF out.kind = "resp"
             THEN req' = [req EXCEPT ![r] =
                       Done(q1, [kind |-> "resp", status |-> out.status, err |-> "",
                                 wrap |-> "", via |-> entry])]
             ELSE IF ~isTimeoutError(out.err)
             THEN req' = [req EXCEPT ![r] =
                       Done(q1, [kind |-> "err", status |-> 0, err |-> out.err,
                                 wrap |-> "", via |-> entry])]
             ELSE req' = [req EXCEPT ![r] =
                       IF Cardinality(q.tried) < Len(q.entries)
                       THEN [q1 EXCEPT !.pc = "select", !.restored = q.restored \ {entry}]
                       ELSE Done([q1 EXCEPT !.restored = q.restored \ {entry}],
                                 [kind |-> "err", status |-> 0, err |-> out.err,
                                  wrap |-> "all proxies failed", via |-> entry])]
    /\ UNCHANGED <<poolVars, counter, healthVars, now, probeVars, ntResult, selSeq,
                   clean, logVars, stopVars, appVars>>

\* entry.transport.RoundTrip(req) returns inside the loop with an outcome
\* out of outs: lines 295-320
RoundTripAttemptWith(r, outs) ==
    /\ req[r].pc = "attempt"
    /\ \E out \in outs :
         LET q == req[r]
             entry == q.entries[q.idx]
             q1 == [Consumed(q) EXCEPT !.attempts =
                       Append(q.attempts, [entry |-> entry, out |-> out, recv |-> Received(q)])]
         IN  IF out.kind = "resp"
             THEN /\ req' = [req EXCEPT ![r] =
                       Done(q1, [kind |-> "resp", status |-> out.status, err |-> "",
                                 wrap |-> "", via |-> entry])]
                  /\ UNCHANGED healthVars
             ELSE IF ~isTimeoutError(out.err)
             THEN /\ req' = [req EXCEPT ![r] =
                       Done(q1, [kind |-> "err", status |-> 0, err |-> out.err,
                                 wrap |-> "", via |-> entry])]
                  /\ UNCHANGED healthVars
             ELSE /\ setHealthy(entry, FALSE, ErrorMsg(out.err))
                  /\ req' = [req EXCEPT ![r] =
                       IF Cardinality(q.tried) < Len(q.entries)
                       THEN [q1 EXCEPT !.pc = "select", !.restored = q.restored \ {entry}]
                       ELSE Done([q1 EXCEPT !.restored = q.restored \ {entry}],
                                 [kind |-> "err", status |-> 0, err |-> out.err,
                                  wrap |-> "all proxies failed", via |-> entry])]
    /\ UNCHANGED <<poolVars, counter, now, probeVars, ntResult, selSeq, clean, logVars, stopVars, appVars>>

RoundTripAttempt(r) == RoundTripAttemptWith(r, DispatchOutcomes)

\* the upstream answers 200 or the dial times out
BasicOutcomes == {Resp(200), Fail("netTimeout")}

RoundTripAttemptBasic(r) == RoundTripAttemptWith(r, BasicOutcomes)

\* the single delegation of the fast path returns: line 265
RoundTripFastWith(r, outs) ==
    /\ req[r].pc = "fast"
    /\ \E out \in outs :
         LET q == req[r]
             entry == q.entries[1]
             q1 == [Consumed(q) EXCEPT !.attempts =
                       Append(q.attempts, [entry |-> entry, out |-> out, recv |-> Received(q)])]
         IN  req' = [req EXCEPT ![r] =
                 Done(q1, [kind |-> out.kind, status |-> out.status, err |-> out.err,
                           wrap |-> "", via |-> entry])]
    /\ UNCHANGED <<poolVars, counter, healthVars, now, probeVars, ntResult, selSeq,
                   clean, logVars, stopVars, appVars>>

RoundTripFast(r) == RoundTripFastWith(r, DispatchOutcomes)

RoundTripFastBasic(r) == RoundTripFastWith(r, BasicOutcomes)

\* the caller has its result; it may call again
RoundTripReturn(r) ==
    /\ req[r].pc = "done"
    /\ req' = [req EXCEPT ![r] = IdleReq]
    /\ UNCHANGED <<poolVars, counter, healthVars, now, probeVars, ntResult, selSeq,
                   clean, logVars, stopVars, appVars>>


\* --------------------------------------------------------- nextTransport
\* the candidates of nextTransport: lines 401-419
nextTransportEntries ==
    LET healthyEntries == Filter(AllEntries, {i \in Indices : healthy[i]})
    IN  IF Len(healthyEntries) = 0 THEN AllEntries ELSE healthyEntries

\* the entry whose transport nextTransport returns, or Panic when
\* healthyEntries[idx] is out of range: lines 421-433
nextTransportPick(healthyEntries, ctr, rnd) ==
    IF Len(healthyEntries) = 1 THEN healthyEntries[1]
    ELSE LET idx == IF rotation = "random" THEN rnd
                    ELSE roundRobinIndex(ctr, Len(healthyEntries))
         IN  IF idx \in 0..(Len(healthyEntries) - 1) THEN healthyEntries[idx + 1]
             ELSE Panic

\* nextTransport: the transport (entry) it returns; the counter advances
\* only when more than one candidate is left under round-robin
NextTransport ==
    /\ phase = "ok"
    /\ LET healthyEntries == nextTransportEntries
       IN  IF Len(healthyEntries) = 1
           THEN /\ ntResult' = nextTransportPick(healthyEntries, counter, 0)
                /\ UNCHANGED <<counter, selSeq, clean>>
           ELSE /\ rotation = "random" \/ counter < MaxCounter
                /\ \E rnd \in 0..(Len(healthyEntries) - 1) :
                     LET picked == nextTransportPick(healthyEntries, counter, rnd)
                     IN  /\ ntResult' = picked
                         /\ RecordSelection(healthyEntries = AllEntries /\ HealthyCount = Size,
                                            picked)
                /\ counter' = IF rotation = "random" THEN counter ELSE Uint64(counter + 1)
    /\ UNCHANGED <<poolVars, healthVars, now, req, probeVars, logVars, stopVars, appVars>>

\* ---------------------------------------------------------- health check
ProbeStatuses == {200, 204, 301, 500}

ProbeOutcomes == {Resp(s) : s \in ProbeStatuses} \cup {Fail("refused")}

\* fmt.Sprintf("unexpected status: %d", resp.StatusCode)
StatusMsg(code) ==
    CASE code = 301 -> "unexpected status: 301"
      [] code = 404 -> "unexpected status: 404"
      [] code = 500 -> "unexpected status: 500"
      [] OTHER -> "unexpected status"

\* logProxyStatus: the message of the record it logs, "" without a logger
logProxyStatus(h, errMsg) ==
    IF ~logger THEN ""
    ELSE IF h
    THEN IF errMsg = "recovered" THEN "proxy recovered" ELSE "proxy healthy"
    ELSE "proxy unhealthy"

\* checkAllProxies starts one checkProxy task per entry
StartRound ==
    /\ probe' = [i \in Indices |-> [pc |-> "wait", was |-> FALSE, got |-> NoOutcome, said |-> ""]]
    /\ emitted' = 0

\* ProxyPool.SetLogger, called before the health check is started
SetLogger ==
    /\ phase = "ok"
    /\ hc = "off"
    /\ ~logger
    /\ logger' = TRUE
    /\ UNCHANGED <<poolVars, counter, healthVars, now, req, probeVars, ntResult, selSeq,
                   clean, summary, emitted, stopVars, appVars>>

\* the direct pool is probed like any other
StartHealthCheckAlways ==
    /\ phase = "ok"
    /\ hc = "off"
    /\ hc' = "on" /\ round' = "running" /\ StartRound
    /\ UNCHANGED <<poolVars, counter, healthVars, now, req, ntResult, selSeq, clean,
                   logger, summary, stopVars, appVars>>

\* StartHealthCheck: nothing for a direct pool, else the first round at once
\* (the loop goroutine is started when that round is over)
StartHealthCheck ==
    /\ phase = "ok"
    /\ hc = "off"
    /\ IF isDirect
       THEN hc' = "direct" /\ UNCHANGED <<round, probe, emitted>>
       ELSE hc' = "on" /\ round' = "running" /\ StartRound
    /\ UNCHANGED <<poolVars, counter, healthVars, now, req, ntResult, selSeq, clean,
                   logger, summary, stopVars, appVars>>

\* the select of the loop takes ticker.C: the next round
TickerFire ==
    /\ hc = "on"
    /\ round = "idle"
    /\ round' = "running"
    /\ StartRound
    /\ UNCHANGED <<poolVars, counter, healthVars, now, req, hc, ntResult, selSeq, clean,
                   logger, summary, stopVars, appVars>>

\* the supervisor cancels the context given to StartHealthCheck
CancelContext ==
    /\ phase = "ok"
    /\ ~ctxDone
    /\ ctxDone' = TRUE
    /\ UNCHANGED <<poolVars, counter, healthVars, now, req, probeVars, ntResult, selSeq,
                   clean, logVars, stopClosed, appVars>>

\* ProxyPool.Stop: close(stopCh)
Stop ==
    /\ phase = "ok"
    /\ ~stopClosed
    /\ stopClosed' = TRUE
    /\ UNCHANGED <<poolVars, counter, healthVars, now, req, probeVars, ntResult, selSeq,
                   clean, logVars, ctxDone, appVars>>

\* the loop goes on although the context is cancelled or stopCh closed
LoopReturnNever ==
    /\ FALSE
    /\ UNCHANGED vars

\* the select of the loop takes ctx.Done() or stopCh: the goroutine returns
LoopReturn ==
    /\ hc = "on"
    /\ round = "idle"
    /\ ctxDone \/ stopClosed
    /\ hc' = "returned"
    /\ UNCHANGED <<poolVars, counter, healthVars, now, req, round, probe, ntResult,
                   selSeq, clean, logVars, stopVars, appVars>>

\* every status below 400 counts as success
CheckProxyResponseBelow400(e, outs) ==
    /\ probe[e].pc = "wait"
    /\ \E out \in outs :
         IF out.kind = "err"
         THEN /\ setHealthy(e, FALSE, ErrorMsg(out.err))
              /\ probe' = [probe EXCEPT ![e] = [pc |-> "idle", was |-> FALSE, got |-> out,
                                                said |-> logProxyStatus(FALSE, ErrorMsg(out.err))]]
         ELSE IF out.status >= 200 /\ out.status < 400
         THEN /\ probe' = [probe EXCEPT ![e] = [pc |-> "set", was |-> ~healthy[e], got |-> out, said |-> ""]]
              /\ UNCHANGED healthVars
         ELSE /\ setHealthy(e, FALSE, StatusMsg(out.status))
              /\ probe' = [probe EXCEPT ![e] = [pc |-> "idle", was |-> FALSE, got |-> out,
                                                said |-> logProxyStatus(FALSE, StatusMsg(out.status))]]
    /\ UNCHANGED <<poolVars, counter, now, req, hc, round, ntResult, selSeq, clean,
                   logVars, stopVars, appVars>>

\* client.Do returns in checkProxy(e) with an outcome out of outs:
\* lines 190-200 and 207-211
CheckProxyResponseWith(e, outs) ==
    /\ probe[e].pc = "wait"
    /\ \E out \in outs :
         IF out.kind = "err"
         THEN /\ setHealthy(e, FALSE, ErrorMsg(out.err))
              /\ probe' = [probe EXCEPT ![e] = [pc |-> "idle", was |-> FALSE, got |-> out,
                                                said |-> logProxyStatus(FALSE, ErrorMsg(out.err))]]
         ELSE IF out.status >= 200 /\ out.status < 300
         THEN /\ probe' = [probe EXCEPT ![e] = [pc |-> "set", was |-> ~healthy[e], got |-> out, said |-> ""]]
              /\ UNCHANGED healthVars
         ELSE /\ setHealthy(e, FALSE, StatusMsg(out.status))
              /\ probe' = [probe EXCEPT ![e] = [pc |-> "idle", was |-> FALSE, got |-> out,
                                                said |-> logProxyStatus(FALSE, StatusMsg(out.status))]]
    /\ UNCHANGED <<poolVars, counter, now, req, hc, round, ntResult, selSeq, clean,
                   logVars, stopVars, appVars>>

CheckProxyResponse(e) == CheckProxyResponseWith(e, ProbeOutcomes)

\* the probe answers 204 or fails to connect
CheckProxyResponseBasic(e) == CheckProxyResponseWith(e, {Resp(204), Fail("refused")})

\* entry.setHealthy(true, "") after a 2xx: line 201
CheckProxyRecover(e) ==
    /\ probe[e].pc = "set"
    /\ setHealthy(e, TRUE, "")
    /\ probe' = [probe EXCEPT ![e] =
                    [pc |-> "idle", was |-> FALSE, got |-> probe[e].got,
                     said |-> logProxyStatus(TRUE, IF probe[e].was THEN "recovered" ELSE "")]]
    /\ req' = [r \in Requests |->
                 IF req[r].pc \in {"select", "attempt", "fast", "done"}
                 THEN [req[r] EXCEPT !.restored = @ \cup {e}]
                 ELSE req[r]]
    /\ UNCHANGED <<poolVars, counter, now, hc, round, ntResult, selSeq, clean, logVars, stopVars, appVars>>

\* the summary is logged without waiting for the probe tasks
RoundEndNoWait ==
    /\ round = "running"
    /\ round' = "summary"
    /\ summary' = NoSummary
    /\ UNCHANGED <<poolVars, counter, healthVars, now, req, hc, probe, ntResult, selSeq,
                   clean, logger, emitted, stopVars, appVars>>

\* wg.Wait() returns: every task of the round is finished
RoundEnd ==
    /\ round = "running"
    /\ \A i \in Indices : probe[i].pc = "idle"
    /\ round' = "summary"
    /\ summary' = NoSummary
    /\ probe' = [i \in Indices |-> [pc |-> "idle", was |-> FALSE, got |-> NoOutcome, said |-> ""]]
    /\ UNCHANGED <<poolVars, counter, healthVars, now, req, hc, ntResult, selSeq, clean,
                   logger, emitted, stopVars, appVars>>

\* logHealthSummary: nothing without a logger; else one entry is counted per
\* step (isHealthy is read entry by entry) and after the last entry the
\* record is logged
LogHealthSummary ==
    /\ round = "summary"
    /\ IF ~logger
       THEN round' = "idle" /\ UNCHANGED <<summary, emitted>>
       ELSE IF summary.i < Size
       THEN /\ summary' = [i |-> summary.i + 1,
                           healthy |-> summary.healthy + (IF healthy[summary.i + 1] THEN 1 ELSE 0),
                           unhealthy |-> summary.unhealthy + (IF healthy[summary.i + 1] THEN 0 ELSE 1)]
            /\ UNCHANGED <<round, emitted>>
       ELSE /\ emitted' = emitted + 1
            /\ round' = "idle"
            /\ summary' = NoSummary
    /\ UNCHANGED <<poolVars, counter, healthVars, now, req, hc, probe, ntResult, selSeq,
                   clean, logger, stopVars, appVars>>

\* ------------------------------------------------------------------ Next
\* one caller at a time, every kind of request body, no health check
Next ==
    \/ Construct
    \/ RoundTripBegin(1)
    \/ RoundTripSelect(1)
    \/ RoundTripAttempt(1)
    \/ RoundTripFast(1)
    \/ RoundTripReturn(1)
    \/ NextTransport

Spec == Init /\ [][Next]_vars

\* concurrent callers on a round-robin pool
ConcurrentConfigs == {ProxyConfig("", 0, GoodURLs(n), "round-robin") : n \in 1..MaxEntries}

InitConcurrent == Init /\ cfg \in ConcurrentConfigs

NextConcurrent ==
    \/ Construct
    \/ \E r \in Requests : RoundTripBeginGet(r)
    \/ \E r \in Requests : RoundTripSelect(r)
    \/ \E r \in Requests : RoundTripAttemptBasic(r)
    \/ \E r \in Requests : RoundTripFastBasic(r)
    \/ \E r \in Requests : RoundTripReturn(r)

SpecConcurrent == InitConcurrent /\ [][NextConcurrent]_vars

\* the health check running beside a caller; the pools rotate at random,
\* which allows every choice round-robin can make and leaves the counter alone
HealthConfigs == {ProxyConfig("", 0, GoodURLs(n), "random") : n \in 0..MaxHealthEntries}

InitHealth == Init /\ cfg \in HealthConfigs

NextHealth ==
    \/ Construct
    \/ RoundTripBeginGet(1)
    \/ RoundTripSelect(1)
    \/ RoundTripAttempt(1)
    \/ RoundTripFast(1)
    \/ RoundTripReturn(1)
    \/ StartHealthCheck
    \/ TickerFire
    \/ \E e \in Indices : CheckProxyResponseBasic(e)
    \/ \E e \in Indices : CheckProxyRecover(e)
    \/ RoundEnd
    \/ LogHealthSummary

SpecHealth == InitHealth /\ [][NextHealth]_vars

\* the health check alone, with the clock running
NextProbe ==
    \/ Construct
    \/ Tick
    \/ StartHealthCheck
    \/ TickerFire
    \/ \E e \in Indices : CheckProxyResponse(e)
    \/ \E e \in Indices : CheckProxyRecover(e)
    \/ RoundEnd
    \/ LogHealthSummary

ProbeConfigs == {ProxyConfig("", 0, GoodURLs(n), "") : n \in 0..MaxEntries}

InitProbe == Init /\ cfg \in ProbeConfigs

SpecProbe == InitProbe /\ [][NextProbe]_vars

\* the health check with a logger, beside a caller: the summary of each round
SummaryConfigs == {ProxyConfig("", 0, GoodURLs(n), "random") : n \in 0..MaxHealthEntries}

InitSummary == Init /\ cfg \in SummaryConfigs

NextSummary ==
    \/ Construct
    \/ SetLogger
    \/ RoundTripBeginGet(1)
    \/ RoundTripSelect(1)
    \/ RoundTripAttemptBasic(1)
    \/ RoundTripFastBasic(1)
    \/ RoundTripReturn(1)
    \/ StartHealthCheck
    \/ TickerFire
    \/ \E e \in Indices : CheckProxyResponseBasic(e)
    \/ \E e \in Indices : CheckProxyRecover(e)
    \/ RoundEnd
    \/ LogHealthSummary

SpecSummary == InitSummary /\ [][NextSummary]_vars

\* the life of the probe loop: started, cancelled or stopped, returned
LifecycleConfigs == {ProxyConfig("", 0, GoodURLs(n), "") : n \in 0..MaxHealthEntries}

InitLifecycle == Init /\ cfg \in LifecycleConfigs

NextLifecycle ==
    \/ Construct
    \/ SetLogger
    \/ StartHealthCheck
    \/ TickerFire
    \/ \E e \in Indices : CheckProxyResponseBasic(e)
    \/ \E e \in Indices : CheckProxyRecover(e)
    \/ RoundEnd
    \/ LogHealthSummary
    \/ CancelContext
    \/ Stop
    \/ LoopReturn

\* a probe ends within defaultHealthCheckTimeout, a running goroutine goes
\* on, and a select with several ready cases picks each of them at random,
\* so the cancelled or stopped case is taken sooner or later
LifecycleFairness ==
    /\ \A e \in 1..MaxHealthEntries :
          /\ WF_vars(e \in Indices /\ CheckProxyResponseBasic(e))
          /\ WF_vars(e \in Indices /\ CheckProxyRecover(e))
    /\ WF_vars(RoundEnd)
    /\ WF_vars(LogHealthSummary)
    /\ SF_vars(LoopReturn)

SpecLifecycle == InitLifecycle /\ [][NextLifecycle]_vars /\ LifecycleFairness

\* ------------------------------------------ functions applied on their own
\* the configuration without any proxy
NoProxyConfig == ProxyConfig("", 0, <<>>, "")

\* isTimeoutError is applied to an error
InitClassify ==
    /\ cfg = NoProxyConfig
    /\ IdlePool
    /\ srv = NoServer
    /\ call \in {[fn |-> "isTimeoutError", arg |-> e, res |-> FALSE, done |-> FALSE] :
                    e \in ErrChainsUpTo(MaxWrap)}

IsTimeoutErrorReturn ==
    /\ call.fn = "isTimeoutError"
    /\ ~call.done
    /\ call' = [call EXCEPT !.res = isTimeoutErrorChain(call.arg), !.done = TRUE]
    /\ UNCHANGED <<proxyVars, srv>>

NextClassify == IsTimeoutErrorReturn

SpecClassify == InitClassify /\ [][NextClassify]_vars

\* ------------------------------------------------- access control (server)
\* net.IP: nil, or an address of AddrBits bits in the IPv4 or the IPv6 family
NilIP == [fam |-> 0, addr |-> 0]

IP(fam, addr) == [fam |-> fam, addr |-> addr]

IPs == {IP(fam, addr) : fam \in {4, 6}, addr \in 0..(Pow2(AddrBits) - 1)}

\* ip.Mask: the first bits bits of the address, the others zero
Mask(addr, bits) == (addr \div Pow2(AddrBits - bits)) * Pow2(AddrBits - bits)

\* net.ParseCIDR of "addr/bits": the network, its address masked
ParseCIDR(fam, addr, bits) == [fam |-> fam, base |-> Mask(addr, bits), bits |-> bits]

\* the networks ParseCIDR can return
IPNets == {ParseCIDR(fam, addr, bits) :
              fam \in {4, 6}, addr \in 0..(Pow2(AddrBits) - 1), bits \in 0..AddrBits}

\* (*net.IPNet).Contains: same family and same network bits
Contains(n, ip) == ip.fam = n.fam /\ Mask(ip.addr, n.bits) = n.base

\* for _, n := range list { if n.Contains(ip) { return ... } }
RECURSIVE AnyContains(_, _)
AnyContains(list, ip) ==
    IF list = <<>> THEN FALSE
    ELSE IF Contains(Head(list), ip) THEN TRUE
    ELSE AnyContains(Tail(list), ip)

\* the allow list is looked at before the block list
AllowedAllowFirst(a, ip) ==
    IF ip = NilIP THEN FALSE
    ELSE IF Len(a.allow) = 0 THEN ~AnyContains(a.block, ip)
    ELSE IF AnyContains(a.allow, ip) THEN TRUE
    ELSE FALSE

\* an empty allow list permits nobody
AllowedEmptyDenies(a, ip) ==
    IF ip = NilIP THEN FALSE
    ELSE IF AnyContains(a.block, ip) THEN FALSE
    ELSE AnyContains(a.allow, ip)

\* (*AccessControl).Allowed
Allowed(a, ip) ==
    IF ip = NilIP THEN FALSE
    ELSE IF AnyContains(a.block, ip) THEN FALSE
    ELSE IF Len(a.allow) = 0 THEN TRUE
    ELSE IF AnyContains(a.allow, ip) THEN TRUE
    ELSE FALSE

\* the sequences over s of length at most n
SeqsUpTo(s, n) == UNION {[1..k -> s] : k \in 0..n}

\* AccessControl values with k allow networks and at most MaxRanges networks in all
AccessControls(k) ==
    {[allow |-> al, block |-> bl] :
        al \in [1..k -> IPNets], bl \in SeqsUpTo(IPNets, MaxRanges - k)}

\* Allowed is applied to an address
InitAllowed ==
    /\ cfg = NoProxyConfig
    /\ IdlePool
    /\ srv = NoServer
    /\ \E k \in 0..MaxRanges : \E a \in AccessControls(k), ip \in IPs \cup {NilIP} :
          call = [fn |-> "Allowed", arg |-> [ac |-> a, ip |-> ip], res |-> FALSE, done |-> FALSE]

AllowedReturn ==
    /\ call.fn = "Allowed"
    /\ ~call.done
    /\ call' = [call EXCEPT !.res = Allowed(call.arg.ac, call.arg.ip), !.done = TRUE]
    /\ UNCHANGED <<proxyVars, srv>>

NextAllowed == AllowedReturn

SpecAllowed == InitAllowed /\ [][NextAllowed]_vars

\* ---------------------------------------------------------------- clientIP
\* A header value or an address is a string of pieces: a piece is one of the
\* characters "," " " "[" "]" ":", a run of digits "p" (a port), a run "x" of
\* other characters, or the text of an IP address.
Ch(c) == [ch |-> c, ip |-> NilIP]

Lit(ip) == [ch |-> "ip", ip |-> ip]

\* the piece holds a colon: the character itself, or the text of an IPv6 address
HasColon(a) == a.ch = ":" \/ (a.ch = "ip" /\ a.ip.fam = 6)

\* net.ParseIP: the address when the string is the text of one, else nil
ParseIP(str) ==
    IF Len(str) = 1 /\ str[1].ch = "ip" THEN str[1].ip ELSE NilIP

\* strings.TrimSpace
RECURSIVE TrimLeft(_)
TrimLeft(str) ==
    IF str # <<>> /\ Head(str) = Ch(" ") THEN TrimLeft(Tail(str)) ELSE str

RECURSIVE TrimRight(_)
TrimRight(str) ==
    IF str # <<>> /\ str[Len(str)] = Ch(" ")
    THEN TrimRight(SubSeq(str, 1, Len(str) - 1))
    ELSE str

TrimSpace(str) == TrimRight(TrimLeft(str))

\* strings.Split(str, ","): the parts between the commas, at least one
RECURSIVE Split(_)
Split(str) ==
    IF \E i \in 1..Len(str) : str[i] = Ch(",")
    THEN LET i == CHOOSE i \in 1..Len(str) :
                     str[i] = Ch(",") /\ \A j \in 1..(i - 1) : str[j] # Ch(",")
         IN  <<SubSeq(str, 1, i - 1)>> \o Split(SubSeq(str, i + 1, Len(str)))
    ELSE <<str>>

\* the first position of str, from position from on, that satisfies the test
\* given as the set of positions that do; 0 when there is none
IndexFrom(hits, from) ==
    IF \E i \in hits : i >= from
    THEN CHOOSE i \in hits : i >= from /\ \A j \in hits : j >= from => i <= j
    ELSE 0

\* net.SplitHostPort: the host, or an error
SplitHostPort(hostport) ==
    LET n == Len(hostport)
        colons == {i \in 1..n : HasColon(hostport[i])}
        opens == {i \in 1..n : hostport[i] = Ch("[")}
        closes == {i \in 1..n : hostport[i] = Ch("]")}
        i == IF colons = {} THEN 0 ELSE CHOOSE c \in colons : \A d \in colons : d <= c
        bad == [ok |-> FALSE, host |-> <<>>]
    IN  IF i = 0 THEN bad
        ELSE IF hostport[i] # Ch(":") THEN bad
        ELSE IF hostport[1] = Ch("[")
        THEN LET end == IndexFrom(closes, 1)
             IN  IF end = 0 THEN bad
                 ELSE IF end + 1 # i THEN bad
                 ELSE IF IndexFrom(opens, 2) # 0 THEN bad
                 ELSE IF IndexFrom(closes, end + 1) # 0 THEN bad
                 ELSE [ok |-> TRUE, host |-> SubSeq(hostport, 2, end - 1)]
        ELSE IF \E c \in colons : c < i THEN bad
        ELSE IF opens # {} THEN bad
        ELSE IF closes # {} THEN bad
        ELSE [ok |-> TRUE, host |-> SubSeq(hostport, 1, i - 1)]

\* the peer address is taken when it parses, the header only after it
clientIPPeerFirst(xff, remoteAddr) ==
    LET parts == Split(xff)
        ip == ParseIP(TrimSpace(parts[1]))
        hp == SplitHostPort(remoteAddr)
        peer == IF ~hp.ok THEN ParseIP(remoteAddr) ELSE ParseIP(hp.host)
    IN  IF peer # NilIP THEN peer
        ELSE IF xff # <<>> THEN ip
        ELSE NilIP

\* the last element of X-Forwarded-For is taken
clientIPLast(xff, remoteAddr) ==
    LET parts == Split(xff)
        ip == ParseIP(TrimSpace(parts[Len(parts)]))
        hp == SplitHostPort(remoteAddr)
    IN  IF xff # <<>> /\ ip # NilIP THEN ip
        ELSE IF ~hp.ok THEN ParseIP(remoteAddr)
        ELSE ParseIP(hp.host)

\* clientIP(r), r.Header.Get("X-Forwarded-For") being xff and r.RemoteAddr
\* remoteAddr
clientIP(xff, remoteAddr) ==
    LET parts == Split(xff)
        ip == ParseIP(TrimSpace(parts[1]))
        hp == SplitHostPort(remoteAddr)
    IN  IF xff # <<>> /\ ip # NilIP THEN ip
        ELSE IF ~hp.ok THEN ParseIP(remoteAddr)
        ELSE ParseIP(hp.host)

\* the header values: strings over "," " " an IPv4 text, an IPv6 text, "x"
XFFValues ==
    SeqsUpTo({Ch(","), Ch(" "), Ch("x"), Lit(IP(4, 1)), Lit(IP(6, 1))}, MaxXFFLen)

\* the peer addresses: "[" or not, a host of some pieces, "]" or not, and
\* nothing, ":", ":port" or a port alone
RemoteAddrs ==
    {open \o host \o close \o tail :
        open \in {<<>>, <<Ch("[")>>},
        host \in SeqsUpTo({Lit(IP(4, 2)), Lit(IP(6, 3)), Ch(":")}, MaxHostLen),
        close \in {<<>>, <<Ch("]")>>},
        tail \in {<<>>, <<Ch(":")>>, <<Ch(":"), Ch("p")>>, <<Ch("p")>>}}

\* clientIP is applied to a request
InitClientIP ==
    /\ cfg = NoProxyConfig
    /\ IdlePool
    /\ srv = NoServer
    /\ \E x \in XFFValues, ra \in RemoteAddrs :
          call = [fn |-> "clientIP", arg |-> [xff |-> x, remoteAddr |-> ra],
                  res |-> NilIP, done |-> FALSE]

ClientIPReturn ==
    /\ call.fn = "clientIP"
    /\ ~call.done
    /\ call' = [call EXCEPT !.res = clientIP(call.arg.xff, call.arg.remoteAddr), !.done = TRUE]
    /\ UNCHANGED <<proxyVars, srv>>

NextClientIP == ClientIPReturn

SpecClientIP == InitClientIP /\ [][NextClientIP]_vars

\* ------------------------------------------------------- the inbound server
\* a CIDR string of the configuration, "addr/bits"
Cidr(fam, addr, bits) == [fam |-> fam, addr |-> addr, bits |-> bits]

\* a prefix length past the address width: net.ParseCIDR fails on it
BadCidr == Cidr(4, 0, AddrBits + 1)

CidrOK(c) == c.bits \in 0..AddrBits

\* a nil *AccessControl
NilAccessControl == [nil |-> TRUE, allow |-> <<>>, block |-> <<>>]

\* NewAccessControl: the parsed networks, or an error on the first bad CIDR
NewAccessControl(a) ==
    IF \E i \in 1..Len(a.AllowCIDRs) : ~CidrOK(a.AllowCIDRs[i]) THEN [ok |-> FALSE, ac |-> NilAccessControl]
    ELSE IF \E i \in 1..Len(a.BlockCIDRs) : ~CidrOK(a.BlockCIDRs[i]) THEN [ok |-> FALSE, ac |-> NilAccessControl]
    ELSE [ok |-> TRUE,
          ac |-> [nil |-> FALSE,
                  allow |-> [i \in 1..Len(a.AllowCIDRs) |->
                                ParseCIDR(a.AllowCIDRs[i].fam, a.AllowCIDRs[i].addr, a.AllowCIDRs[i].bits)],
                  block |-> [i \in 1..Len(a.BlockCIDRs) |->
                                ParseCIDR(a.BlockCIDRs[i].fam, a.BlockCIDRs[i].addr, a.BlockCIDRs[i].bits)]]]

AccessConfig(allow, block) == [AllowCIDRs |-> allow, BlockCIDRs |-> block]

\* the access sections: nothing, a block inside an allow, a block alone, a
\* CIDR that does not parse
AccessConfigs ==
    {AccessConfig(<<>>, <<>>),
     AccessConfig(<<Cidr(4, 2, 1)>>, <<Cidr(4, 2, AddrBits)>>),
     AccessConfig(<<>>, <<Cidr(4, 2, AddrBits)>>),
     AccessConfig(<<BadCidr>>, <<>>)}

\* the default methods of the cors section
DefaultMethods == <<"GET", "POST", "PUT", "PATCH", "DELETE", "OPTIONS">>

CORSConfig(origins, credentials, maxAge) ==
    [AllowedOrigins |-> origins, AllowedHeaders |-> <<"*">>, AllowCredentials |-> credentials,
     ExposeHeaders |-> <<>>, AllowMethods |-> DefaultMethods, MaxAgeSeconds |-> maxAge]

CORSConfigs ==
    {CORSConfig(o, c, m) :
        o \in {<<"*">>, <<" https://x ">>, <<>>}, c \in BOOLEAN, m \in {0, 600}}

\* strings.TrimSpace and the case folding of strings.EqualFold on the origins
TrimSpaceStr(str) == IF str = " https://x " THEN "https://x" ELSE str

Fold(str) == IF str = "HTTPS://X" THEN "https://x" ELSE str

EqualFold(a, b) == Fold(a) = Fold(b)

\* originAllowed
originAllowed(allowed, origin) ==
    IF Len(allowed) = 0 THEN FALSE
    ELSE IF allowed[1] = "*" THEN TRUE
    ELSE \E i \in 1..Len(allowed) : EqualFold(TrimSpaceStr(allowed[i]), origin)

\* strings.Join(list, ",")
RECURSIVE Join(_)
Join(list) ==
    IF Len(list) = 0 THEN <<>>
    ELSE IF Len(list) = 1 THEN list
    ELSE <<Head(list), ",">> \o Join(Tail(list))

DigitChars == <<"0", "1", "2", "3", "4", "5", "6", "7", "8", "9">>

\* fmt.Sprintf("%d", n) for n >= 0: the decimal digits
RECURSIVE Itoa(_)
Itoa(n) ==
    IF n < 10 THEN <<DigitChars[n + 1]>>
    ELSE Itoa(n \div 10) \o <<DigitChars[(n % 10) + 1]>>

HeaderNames ==
    {"Access-Control-Allow-Origin", "Access-Control-Allow-Credentials",
     "Access-Control-Expose-Headers", "Access-Control-Allow-Headers",
     "Access-Control-Allow-Methods", "Access-Control-Max-Age"}

NoHeaders == [h \in HeaderNames |-> <<>>]

\* the headers corsMiddleware sets: lines 29-52 of part_000
CorsHeaders(c, origin) ==
    LET ok == originAllowed(c.AllowedOrigins, origin)
    IN  [h \in HeaderNames |->
            CASE h = "Access-Control-Allow-Origin" ->
                     IF ~ok THEN <<>>
                     ELSE IF Len(c.AllowedOrigins) = 1 /\ c.AllowedOrigins[1] = "*" THEN <<"*">>
                     ELSE IF origin # "" THEN <<origin>>
                     ELSE <<>>
              [] h = "Access-Control-Allow-Credentials" ->
                     IF ok /\ c.AllowCredentials THEN <<"true">> ELSE <<>>
              [] h = "Access-Control-Expose-Headers" ->
                     IF ok /\ Len(c.ExposeHeaders) > 0 THEN Join(c.ExposeHeaders) ELSE <<>>
              [] h = "Access-Control-Allow-Headers" ->
                     IF ok /\ Len(c.AllowedHeaders) > 0 THEN Join(c.AllowedHeaders) ELSE <<>>
              [] h = "Access-Control-Allow-Methods" ->
                     IF ok /\ Len(c.AllowMethods) > 0 THEN Join(c.AllowMethods) ELSE <<>>
              [] OTHER ->
                     IF c.MaxAgeSeconds > 0 THEN Itoa(c.MaxAgeSeconds) ELSE <<>>]

\* chain(h, m...): h = m[i](h) for i from the last to the first; the layers
\* of the result, outermost first
RECURSIVE chain(_, _)
chain(h, m) ==
    IF m = <<>> THEN h
    ELSE chain(<<m[Len(m)]>> \o h, SubSeq(m, 1, Len(m) - 1))

\* the inbound requests
InboundRequest(method, path, origin, xff, remoteAddr) ==
    [Method |-> method, Path |-> path, Origin |-> origin, XFF |-> xff, RemoteAddr |-> remoteAddr]

InboundRequests ==
    {InboundRequest(m, p, o, x, <<Lit(IP(4, a)), Ch(":"), Ch("p")>>) :
        m \in {"GET", "OPTIONS"}, p \in {"/healthz", "/any"},
        o \in {"", "https://x", "HTTPS://X", "https://y"},
        x \in {<<>>, <<Lit(IP(4, 3))>>}, a \in {0, 2}}

NoRequest == InboundRequest("", "", "", <<>>, <<>>)

\* a response body: nothing, or a text, followed by a newline or not
NoText == [text |-> "", nl |-> FALSE]

NoResponse == [status |-> 0, headers |-> NoHeaders, body |-> NoText]

\* statusRecorder: not made yet
NoRecorder == [on |-> FALSE, status |-> 0]

IdleServer(c, ac, layers) ==
    [pc |-> "ready", cfg |-> c, ac |-> ac, chain |-> layers, r |-> NoRequest, at |-> 0,
     rec |-> NoRecorder, resp |-> NoResponse, log |-> <<>>, trace |-> <<>>, handler |-> "",
     calls |-> <<>>]

\* an informational status: the http server sends it at once and still
\* waits for the status of the response
Informational(status) == status \in 100..199 /\ status # 101

\* w.WriteHeader(status) on the writer a layer was handed: through the
\* statusRecorder when the logging layer is above, and the first status
\* written that is not informational is the one the client gets; calls
\* keeps the statuses written during the request
WriteHeader(s, status) ==
    [s EXCEPT !.rec = IF s.rec.on THEN [on |-> TRUE, status |-> status] ELSE @,
              !.resp.status = IF @ = 0 /\ ~Informational(status) THEN status ELSE @,
              !.calls = Append(@, status)]

\* w.Write(text): a first write without a status sends 200
Write(s, text, nl) ==
    [s EXCEPT !.resp.status = IF @ = 0 THEN 200 ELSE @,
              !.resp.body = [text |-> text, nl |-> nl]]

\* http.Error(w, msg, code): the status, then the message and a newline
HttpError(s, msg, code) == Write(WriteHeader(s, code), msg, TRUE)

\* the layer is over: back up through the layers above it
Unwind(s) == [s EXCEPT !.pc = IF s.rec.on THEN "up" ELSE "done"]

\* the layer calls next.ServeHTTP
CallNext(s) == [s EXCEPT !.at = s.at + 1]

Enter(s, layer) == [s EXCEPT !.trace = Append(s.trace, layer)]

ServerVars == <<proxyVars, call>>

\* server.New: the access control is parsed and the handler composed
ServerNew ==
    /\ srv.pc = "new"
    /\ LET a == NewAccessControl(srv.cfg.Access)
       IN  srv' = IF ~a.ok THEN [srv EXCEPT !.pc = "failed"]
                  ELSE IdleServer(srv.cfg, a.ac, chain(<<"mux">>, <<"access", "cors", "logging">>))
    /\ UNCHANGED ServerVars

\* the http server hands a request to the composed handler
Receive ==
    /\ srv.pc = "ready"
    /\ \E r \in InboundRequests :
          srv' = [IdleServer(srv.cfg, srv.ac, srv.chain) EXCEPT !.pc = "down", !.r = r, !.at = 1]
    /\ UNCHANGED ServerVars

Layer == srv.chain[srv.at]

\* loggingMiddleware up to next.ServeHTTP: the recorder starts at 200
LoggingServe ==
    /\ srv.pc = "down"
    /\ Layer = "logging"
    /\ srv' = CallNext([Enter(srv, "logging") EXCEPT !.rec = [on |-> TRUE, status |-> 200]])
    /\ UNCHANGED ServerVars

\* corsMiddleware: the headers, then 204 for OPTIONS or the next layer
CorsServe ==
    /\ srv.pc = "down"
    /\ Layer = "cors"
    /\ LET s == [Enter(srv, "cors") EXCEPT
                    !.resp.headers = CorsHeaders(srv.cfg.CORS, srv.r.Origin)]
       IN  srv' = IF srv.r.Method = "OPTIONS"
                  THEN Unwind(WriteHeader(s, 204))
                  ELSE CallNext(s)
    /\ UNCHANGED ServerVars

\* the access check is skipped
accessMiddlewareOpen(s) == CallNext(s)

\* accessMiddleware(ac): the body of the handler it returns
accessMiddleware(s) ==
    IF s.ac.nil THEN CallNext(s)
    ELSE IF ~Allowed(s.ac, clientIP(s.r.XFF, s.r.RemoteAddr))
    THEN Unwind(HttpError(s, "forbidden", 403))
    ELSE CallNext(s)

AccessServe ==
    /\ srv.pc = "down"
    /\ Layer = "access"
    /\ srv' = accessMiddleware(Enter(srv, "access"))
    /\ UNCHANGED ServerVars

\* the mux: /healthz answers 200 "ok"; every other path goes to the reverse
\* proxy, which copies the upstream's answer or, on a transport error, has
\* its ErrorHandler answer 502 "proxy error"
MuxServe ==
    /\ srv.pc = "down"
    /\ Layer = "mux"
    /\ LET s == Enter(srv, "mux")
       IN  IF srv.r.Path = "/healthz"
           THEN srv' = Unwind(Write(WriteHeader([s EXCEPT !.handler = "healthz"], 200), "ok", FALSE))
           ELSE \E out \in {Resp(200), Fail("refused")} :
                  srv' = IF out.kind = "resp"
                         THEN Unwind(Write(WriteHeader([s EXCEPT !.handler = "proxy"], out.status),
                                           "upstream", FALSE))
                         ELSE Unwind(HttpError([s EXCEPT !.handler = "proxy"], "proxy error", 502))
    /\ UNCHANGED ServerVars

\* loggingMiddleware after next.ServeHTTP has returned: the record
LoggingReturn ==
    /\ srv.pc = "up"
    /\ srv' = [srv EXCEPT !.pc = "done",
                          !.log = Append(srv.log, [Method |-> srv.r.Method, URL |-> srv.r.Path,
                                                   status |-> srv.rec.status])]
    /\ UNCHANGED ServerVars

\* the response is out; the server waits for the next request
Respond ==
    /\ srv.pc = "done"
    /\ srv' = IdleServer(srv.cfg, srv.ac, srv.chain)
    /\ UNCHANGED ServerVars

\* the main server as server.New composes it
ServerConfigs == {[Access |-> a, CORS |-> c] : a \in AccessConfigs, c \in CORSConfigs}

InitServer ==
    /\ cfg = NoProxyConfig
    /\ IdlePool
    /\ call = NoCall
    /\ \E c \in ServerConfigs :
          srv = [IdleServer(c, NilAccessControl, <<>>) EXCEPT !.pc = "new"]

NextServer ==
    \/ ServerNew
    \/ Receive
    \/ LoggingServe
    \/ CorsServe
    \/ AccessServe
    \/ MuxServe
    \/ LoggingReturn
    \/ Respond

SpecServer == InitServer /\ [][NextServer]_vars

\* accessMiddleware on its own, before the mux, with or without an
\* AccessControl
GateControls ==
    {NilAccessControl} \cup
    {NewAccessControl(a).ac : a \in {x \in AccessConfigs : NewAccessControl(x).ok}}

InitGate ==
    /\ cfg = NoProxyConfig
    /\ IdlePool
    /\ call = NoCall
    /\ \E ac \in GateControls :
          srv = IdleServer([Access |-> AccessConfig(<<>>, <<>>),
                            CORS |-> CORSConfig(<<"*">>, FALSE, 600)], ac,
                           chain(<<"mux">>, <<"access">>))

NextGate ==
    \/ Receive
    \/ AccessServe
    \/ MuxServe
    \/ Respond

SpecGate == InitGate /\ [][NextGate]_vars

\* corsMiddleware on its own, before the mux: the cors sections with a
\* wildcard first, last or alone, with origins to compare, with and without
\* headers to expose
CorsSpecs ==
    {[CORSConfig(o, c, m) EXCEPT !.ExposeHeaders = e] :
        o \in {<<"*">>, <<" https://x ">>, <<>>, <<"*", "https://x">>,
               <<"https://x", "*">>, <<"https://y", "HTTPS://X">>},
        c \in BOOLEAN, m \in {0, 600}, e \in {<<>>, <<"X-A", "X-B">>}}

InitCors ==
    /\ cfg = NoProxyConfig
    /\ IdlePool
    /\ call = NoCall
    /\ \E c \in CorsSpecs :
          srv = IdleServer([Access |-> AccessConfig(<<>>, <<>>), CORS |-> c], NilAccessControl,
                           chain(<<"mux">>, <<"cors">>))

NextCors ==
    \/ Receive
    \/ CorsServe
    \/ MuxServe
    \/ Respond

SpecCors == InitCors /\ [][NextCors]_vars

\* loggingMiddleware around a handler that writes any statuses it likes: the
\* statuses a handler may hand to w.WriteHeader
HandlerStatuses == {103, 200, 500}

\* w.WriteHeader called for each status of the list in turn
RECURSIVE WriteHeaders(_, _)
WriteHeaders(s, statuses) ==
    IF statuses = <<>> THEN s
    ELSE WriteHeaders(WriteHeader(s, Head(statuses)), Tail(statuses))

\* a handler below the logging layer: up to MaxWrites calls of w.WriteHeader,
\* then a body or none
HandlerServe ==
    /\ srv.pc = "down"
    /\ Layer = "handler"
    /\ \E statuses \in SeqsUpTo(HandlerStatuses, MaxWrites), body \in BOOLEAN :
          LET s == WriteHeaders([Enter(srv, "handler") EXCEPT !.handler = "any"], statuses)
          IN  srv' = Unwind(IF body THEN Write(s, "body", FALSE) ELSE s)
    /\ UNCHANGED ServerVars

InitLogging ==
    /\ cfg = NoProxyConfig
    /\ IdlePool
    /\ call = NoCall
    /\ srv = IdleServer([Access |-> AccessConfig(<<>>, <<>>),
                         CORS |-> CORSConfig(<<"*">>, FALSE, 600)], NilAccessControl,
                        chain(<<"handler">>, <<"logging">>))

NextLogging ==
    \/ Receive
    \/ LoggingServe
    \/ HandlerServe
    \/ LoggingReturn
    \/ Respond

SpecLogging == InitLogging /\ [][NextLogging]_vars

\* ------------------------------------------------- the reverse proxy director
\* a header name as the configuration or a request writes it: a name in its
\* canonical form ("Origin"), in lower case ("origin"), or with blanks around
\* it (" Origin "); the name "" gives the empty key and the key of blanks only
Key(name, form) == [name |-> name, form |-> form]

KeyNames == {"", "Host", "Origin", "Referer", "X-Custom"}

Keys == {Key(n, f) : n \in KeyNames, f \in {"canon", "lower", "padded"}} \
            {Key("", "lower")}

\* strings.TrimSpace on a key
TrimSpaceKey(k) == IF k.form = "padded" THEN Key(k.name, "canon") ELSE k

EmptyKey == Key("", "canon")

\* textproto.CanonicalMIMEHeaderKey: a key with a blank in it is left as it
\* is, any other key gets its canonical case
CanonicalMIMEHeaderKey(k) == IF k.form = "padded" THEN k ELSE Key(k.name, "canon")

\* http.Header: for each key the values under it, none or one
NoHeader == [k \in Keys |-> <<>>]

\* Header.Get: the first value under the canonical key, "" when there is none
HeaderGet(h, k) ==
    LET vs == h[CanonicalMIMEHeaderKey(k)]
    IN  IF vs = <<>> THEN <<>> ELSE vs[1]

\* Header.Set: the value replaces what is under the canonical key
HeaderSet(h, k, v) == [h EXCEPT ![CanonicalMIMEHeaderKey(k)] = <<v>>]

\* the origin URL, its path as a list of segments, and (*url.URL).String() as
\* the pieces of the text
URL(scheme, host, path) == [Scheme |-> scheme, Host |-> host, Path |-> path]

URLString(u) == <<u.Scheme, "://", u.Host>> \o u.Path

\* the director of httputil.NewSingleHostReverseProxy: the request URL is
\* pointed at the origin; Host and the headers are left alone
origDirector(r, target) ==
    [r EXCEPT !.URL = URL(target.Scheme, target.Host, target.Path \o r.URL.Path)]

\* the rewrites are skipped
applyRewritesNone(r, target, headers) == r

\* applyRewrites: lines 38-49 of reverse_proxy.go
applyRewrites(r, target, headers) ==
    LET r1 == IF headers.RewriteHost
              THEN [r EXCEPT !.Host = target.Host,
                             !.Header = HeaderSet(r.Header, Key("Host", "canon"), <<target.Host>>)]
              ELSE r
        r2 == IF headers.RewriteOrigin /\ HeaderGet(r1.Header, Key("Origin", "canon")) # <<>>
              THEN [r1 EXCEPT !.Header = HeaderSet(r1.Header, Key("Origin", "canon"), URLString(target))]
              ELSE r1
    IN  IF headers.RewriteReferer /\ HeaderGet(r2.Header, Key("Referer", "canon")) # <<>>
        THEN [r2 EXCEPT !.Header = HeaderSet(r2.Header, Key("Referer", "canon"), URLString(target))]
        ELSE r2

\* every entry is set, a key of blanks too
applyAddHeaderAll(r, k, v) == [r EXCEPT !.Header = HeaderSet(r.Header, k, v)]

\* applyAddHeaders, one turn of its loop: lines 53-56 of reverse_proxy.go
applyAddHeader(r, k, v) ==
    IF TrimSpaceKey(k) = EmptyKey THEN r
    ELSE [r EXCEPT !.Header = HeaderSet(r.Header, k, v)]

\* the override is dropped
applyHostNameNever(r, hostName) == r

\* lines 25-27 of reverse_proxy.go
applyHostName(r, hostName) == IF hostName # "" THEN [r EXCEPT !.Host = hostName] ELSE r

\* the Director is running on call.arg.r: what it has made of the request so
\* far, the keys of headers.add its loop has still to visit, the last key
\* visited
DirectorAt(stage) == call.fn = "Director" /\ ~call.done /\ call.res.pc = stage

DirectorRewrites ==
    /\ DirectorAt("start")
    /\ call' = [call EXCEPT
                   !.res.r = applyRewrites(origDirector(call.arg.r, call.arg.target),
                                           call.arg.target, call.arg.cfg.Headers),
                   !.res.pc = "add"]
    /\ UNCHANGED <<proxyVars, srv>>

\* for k, v := range headers: the entries come in any order
DirectorAddHeader ==
    /\ DirectorAt("add")
    /\ \E k \in call.res.todo :
          call' = [call EXCEPT
                      !.res.r = applyAddHeader(call.res.r, k, call.arg.cfg.Headers.Add[k]),
                      !.res.todo = @ \ {k},
                      !.res.last = <<k>>]
    /\ UNCHANGED <<proxyVars, srv>>

DirectorHostName ==
    /\ DirectorAt("add")
    /\ call.res.todo = {}
    /\ call' = [call EXCEPT !.res.r = applyHostName(call.res.r, call.arg.cfg.HostName),
                            !.res.pc = "out",
                            !.done = TRUE]
    /\ UNCHANGED <<proxyVars, srv>>

\* the header sections: headers.add with at most MaxAdd entries
HeaderValues == {<<>>, <<"v">>}

AddKeys ==
    {Key("Origin", "canon"), Key("Origin", "lower"), Key("X-Custom", "canon"),
     Key("X-Custom", "padded"), Key("", "canon"), Key("", "padded"), Key("Host", "canon")}

AddMaps(n) == UNION {[held -> HeaderValues] : held \in {s \in SUBSET AddKeys : Cardinality(s) = n}}

HeaderConfig(host, origin, referer, add) ==
    [RewriteHost |-> host, RewriteOrigin |-> origin, RewriteReferer |-> referer, Add |-> add]

Targets == {URL("https", "target.example.com", <<>>), URL("http", "t:8080", <<"/api">>)}

\* the requests the server hands to the proxy: Host as the client sent it,
\* Origin absent, empty or set, Referer absent or set
ProxiedRequests ==
    {[Host |-> h, URL |-> URL("", "", <<"/p">>),
      Header |-> [NoHeader EXCEPT ![Key("Origin", "canon")] = o, ![Key("Referer", "canon")] = f]] :
        h \in {"", "client.example"},
        o \in {<<>>, <<<<>>>>, <<<<"https", "://", "client.example">>>>},
        f \in {<<>>, <<<<"https", "://", "client.example", "/page">>>>}}

InitDirector ==
    /\ cfg = NoProxyConfig
    /\ IdlePool
    /\ srv = NoServer
    /\ \E n \in 0..MaxAdd :
          \E add \in AddMaps(n), h \in BOOLEAN, o \in BOOLEAN, f \in BOOLEAN,
             name \in {"", "static.example"}, t \in Targets, r \in ProxiedRequests :
              call = [fn |-> "Director",
                      arg |-> [r |-> r, target |-> t,
                               cfg |-> [Headers |-> HeaderConfig(h, o, f, add), HostName |-> name]],
                      res |-> [r |-> r, todo |-> DOMAIN add, last |-> <<>>, pc |-> "start"],
                      done |-> FALSE]

NextDirector ==
    \/ DirectorRewrites
    \/ DirectorAddHeader
    \/ DirectorHostName

SpecDirector == InitDirector /\ [][NextDirector]_vars

\* ------------------------------------------- the reverse proxy over the pool
\* the error is written to the client
ErrorHandlerLeaky(s, err) == HttpError(s, ErrorMsg(err.err), 502)

\* proxy.ErrorHandler: the error goes to the log, the client gets 502 and
\* the text "proxy error"
ErrorHandler(s, err) ==
    HttpError([s EXCEPT !.log = Append(@, [error |-> err.err, wrap |-> err.wrap, url |-> s.r.Path])],
              "proxy error", 502)

\* ReverseProxy.ServeHTTP hands the outgoing request to the pool's RoundTrip
ProxyRoundTrip ==
    /\ srv.pc = "down"
    /\ Layer = "proxy"
    /\ RoundTripBeginGet(1)

\* RoundTrip has returned: the upstream's response is copied to the client,
\* an error goes to the ErrorHandler
ProxyReturn ==
    /\ srv.pc = "down"
    /\ Layer = "proxy"
    /\ req[1].pc = "done"
    /\ LET res == req[1].result
           s == [Enter(srv, "proxy") EXCEPT !.handler = "proxy"]
       IN  srv' = IF res.kind = "resp"
                  THEN Unwind(Write(WriteHeader(s, res.status), "upstream", FALSE))
                  ELSE Unwind(ErrorHandler(s, res))
    /\ req' = [req EXCEPT ![1] = IdleReq]
    /\ UNCHANGED <<poolVars, counter, healthVars, now, probeVars, ntResult, selSeq,
                   clean, logVars, stopVars, call>>

UpstreamConfigs == {ProxyConfig("", 0, GoodURLs(n), "random") : n \in 0..MaxHealthEntries}

InitUpstream ==
    /\ cfg \in UpstreamConfigs
    /\ IdlePool
    /\ call = NoCall
    /\ srv = IdleServer([Access |-> AccessConfig(<<>>, <<>>),
                         CORS |-> CORSConfig(<<"*">>, FALSE, 600)], NilAccessControl,
                        chain(<<"proxy">>, <<>>))

NextUpstream ==
    \/ Construct
    \/ Receive
    \/ ProxyRoundTrip
    \/ RoundTripSelect(1)
    \/ RoundTripAttempt(1)
    \/ RoundTripFast(1)
    \/ ProxyReturn
    \/ Respond

SpecUpstream == InitUpstream /\ [][NextUpstream]_vars

\* ------------------------------------------------------------ Server.Start
\* the tls section: file names ("" when not configured) and the acme section
\* with its port as a list of pieces, <<>> when unset
TLSConfig(certFile, keyFile, enabled, port) ==
    [CertFile |-> certFile, KeyFile |-> keyFile,
     ACME |-> [Enabled |-> enabled, Domain |-> "example.com", HTTP01Port |-> port]]

HasCertificates(t) == t.CertFile # "" /\ t.KeyFile # ""

\* the port is used as it is configured, without ":80" for an unset one
acmeAddrRaw(t) == t.ACME.HTTP01Port

\* Server.acmeAddr
acmeAddr(t) ==
    LET addr == t.ACME.HTTP01Port
    IN  IF addr = <<>> THEN <<":", "80">>
        ELSE IF Head(addr) = ":" THEN addr
        ELSE <<":">> \o addr

\* context.WithTimeout(context.Background(), 5*time.Second)
ShutdownTimeout == 5

\* an http.Server: not made, made, listening or shut down; for a TLS server
\* the certificate sources of its tls.Config: the key pair of the files
\* ("files") and the GetCertificate hook of the ACME manager ("acme")
NoHTTPServer ==
    [state |-> "none", Addr |-> <<>>, getCertificate |-> "", certificates |-> "", serve |-> <<>>]

Servers == {"main", "acme"}

\* Start has been called with call.arg: the goroutine of the caller (main),
\* the two http servers, the goroutine that waits for ctx.Done() for each of
\* them (watch), the Shutdown call of each (shut: running since elapsed
\* seconds), the goroutine that serves ACME (acmeServe), what Start returned,
\* the log, the certificate source of the last TLS handshake
IdleStart ==
    [ctx |-> FALSE, main |-> "setup", ret |-> "",
     http |-> [x \in Servers |-> NoHTTPServer],
     watch |-> [x \in Servers |-> "none"],
     shut |-> [x \in Servers |-> [on |-> FALSE, elapsed |-> 0, err |-> ""]],
     acmeServe |-> "none", log |-> <<>>, handshake |-> ""]

Starting == call.fn = "Start" /\ ~call.done

StartVars == <<proxyVars, srv>>

\* lines 48-80: the servers are made, the goroutines started
StartSetup ==
    /\ Starting
    /\ call.res.main = "setup"
    /\ LET t == call.arg.TLS
           enabled == t.ACME.Enabled
       IN  call' = [call EXCEPT
               !.res.main = "serve",
               !.res.http = [x \in Servers |->
                   IF x = "main"
                   THEN [NoHTTPServer EXCEPT !.state = "made", !.Addr = call.arg.Listen,
                                             !.getCertificate = IF enabled THEN "acme" ELSE ""]
                   ELSE IF enabled
                   THEN [NoHTTPServer EXCEPT !.state = "made", !.Addr = acmeAddr(t)]
                   ELSE NoHTTPServer],
               !.res.watch = [x \in Servers |-> IF x = "main" \/ enabled THEN "wait" ELSE "none"],
               !.res.acmeServe = IF enabled THEN "ready" ELSE "none"]
    /\ UNCHANGED StartVars

\* the call Start ends with: lines 82-88
ServeCall(t) ==
    IF HasCertificates(t) THEN <<"ListenAndServeTLS", t.CertFile, t.KeyFile>>
    ELSE IF t.ACME.Enabled THEN <<"ListenAndServeTLS", "", "">>
    ELSE <<"ListenAndServe">>

\* http.Server.ServeTLS: the key pair of the files is loaded unless the
\* tls.Config has a certificate source and no file is named
LoadsKeyPair(h, serve) == h.getCertificate = "" \/ serve[2] # "" \/ serve[3] # ""

\* the main server is entered: ErrServerClosed at once after a Shutdown, an
\* error when the address cannot be bound or the key pair not loaded, else it
\* listens
StartServe ==
    /\ Starting
    /\ call.res.main = "serve"
    /\ LET serve == ServeCall(call.arg.TLS)
           h == call.res.http["main"]
       IN  IF h.state = "down"
           THEN call' = [call EXCEPT !.res.main = "returned", !.res.ret = "ErrServerClosed",
                                     !.res.http["main"].serve = serve]
           ELSE \E err \in {"", "listen"} \cup
                           (IF serve[1] = "ListenAndServeTLS" /\ LoadsKeyPair(h, serve)
                            THEN {"keypair"} ELSE {}) :
                   call' = IF err # ""
                           THEN [call EXCEPT !.res.main = "returned", !.res.ret = err,
                                             !.res.http["main"].serve = serve]
                           ELSE [call EXCEPT
                                    !.res.main = "serving",
                                    !.res.http["main"].serve = serve,
                                    !.res.http["main"].state = "listening",
                                    !.res.http["main"].certificates =
                                        IF serve[1] = "ListenAndServeTLS" /\ LoadsKeyPair(h, serve)
                                        THEN "files" ELSE ""]
    /\ UNCHANGED StartVars

\* Shutdown has closed the listener: the serve call returns ErrServerClosed
\* and Start returns it
StartReturn ==
    /\ Starting
    /\ call.res.main = "serving"
    /\ call.res.http["main"].state = "down"
    /\ call' = [call EXCEPT !.res.main = "returned", !.res.ret = "ErrServerClosed"]
    /\ UNCHANGED StartVars

\* the supervisor cancels the context Start was given
StartCancel ==
    /\ Starting
    /\ call.res.main # "setup"
    /\ ~call.res.ctx
    /\ call' = [call EXCEPT !.res.ctx = TRUE]
    /\ UNCHANGED StartVars

\* the goroutine stays blocked on ctx.Done()
WatcherStuck(x) ==
    /\ FALSE
    /\ UNCHANGED vars

\* <-ctx.Done() returns in the goroutine of server x and shutdownWithLog
\* calls Shutdown with its own context: the server stops listening
Watcher(x) ==
    /\ Starting
    /\ call.res.watch[x] = "wait"
    /\ call.res.ctx
    /\ call' = [call EXCEPT !.res.watch[x] = "shutdown",
                            !.res.http[x].state = "down",
                            !.res.shut[x] = [on |-> TRUE, elapsed |-> 0, err |-> ""]]
    /\ UNCHANGED StartVars

\* shutdownWithLog after Shutdown has returned err: lines 123-125
shutdownWithLog(c, x, err) ==
    IF err # "" /\ err # "context canceled"
    THEN [c EXCEPT !.res.log = Append(@, [msg |-> "shutdown", server |-> x, err |-> err])]
    ELSE c

\* Shutdown of server x returns: nil or the error of closing the listener
\* when the connections are idle in time, the context's error at the deadline
ShutdownReturn(x) ==
    /\ Starting
    /\ call.res.watch[x] = "shutdown"
    /\ \E err \in {"", "close"} \cup
                  (IF call.res.shut[x].elapsed = ShutdownTimeout
                   THEN {"context deadline exceeded"} ELSE {}) :
          call' = shutdownWithLog([call EXCEPT !.res.watch[x] = "end",
                                               !.res.shut[x].on = FALSE,
                                               !.res.shut[x].err = err], x, err)
    /\ UNCHANGED StartVars

\* a second passes; no Shutdown runs past its deadline
StartTick ==
    /\ Starting
    /\ \E x \in Servers : call.res.shut[x].on
    /\ \A x \in Servers : call.res.shut[x].on => call.res.shut[x].elapsed < ShutdownTimeout
    /\ call' = [call EXCEPT !.res.shut = [x \in Servers |->
                   IF call.res.shut[x].on
                   THEN [call.res.shut[x] EXCEPT !.elapsed = @ + 1]
                   ELSE call.res.shut[x]]]
    /\ UNCHANGED StartVars

\* acmeSrv.ListenAndServe() in its goroutine: ErrServerClosed after a
\* Shutdown, an error that is logged when the port cannot be bound, else it
\* listens
AcmeServe ==
    /\ Starting
    /\ call.res.acmeServe = "ready"
    /\ IF call.res.http["acme"].state = "down"
       THEN call' = [call EXCEPT !.res.acmeServe = "end"]
       ELSE \E err \in {"", "listen"} :
               call' = IF err # ""
                       THEN [call EXCEPT !.res.acmeServe = "end",
                                         !.res.http["acme"].state = "failed",
                                         !.res.log = Append(@, [msg |-> "acme http server error",
                                                                server |-> "acme", err |-> err])]
                       ELSE [call EXCEPT !.res.acmeServe = "serving",
                                         !.res.http["acme"].state = "listening"]
    /\ UNCHANGED StartVars

\* acmeSrv.ListenAndServe() returns ErrServerClosed after the Shutdown:
\* nothing is logged
AcmeServeReturn ==
    /\ Starting
    /\ call.res.acmeServe = "serving"
    /\ call.res.http["acme"].state = "down"
    /\ call' = [call EXCEPT !.res.acmeServe = "end"]
    /\ UNCHANGED StartVars

\* crypto/tls picks the certificate of a handshake: the GetCertificate hook
\* when there is one and the client names a server (or no key pair is
\* loaded), which with the ACME manager always gives a certificate or an
\* error; else the loaded key pair
CertificateSource(h, sni) ==
    IF h.getCertificate # "" /\ (h.certificates = "" \/ sni) THEN h.getCertificate
    ELSE h.certificates

\* a client connects to the main server over TLS, with or without a server
\* name
Handshake ==
    /\ Starting
    /\ call.res.http["main"].state = "listening"
    /\ call.res.http["main"].serve[1] = "ListenAndServeTLS"
    /\ \E sni \in BOOLEAN :
          call' = [call EXCEPT !.res.handshake = CertificateSource(call.res.http["main"], sni)]
    /\ UNCHANGED StartVars

\* the caller of Start has its result
StartDone ==
    /\ Starting
    /\ call.res.main = "returned"
    /\ \A x \in Servers : call.res.watch[x] \in {"none", "end"}
    /\ call.res.acmeServe \in {"none", "end"}
    /\ call' = [call EXCEPT !.done = TRUE]
    /\ UNCHANGED StartVars

StartConfigs ==
    {[Listen |-> <<"0.0.0.0", ":", "8080">>, TLS |-> TLSConfig(c, k, e, p)] :
        c \in {"", "cert.pem"}, k \in {"", "key.pem"}, e \in BOOLEAN,
        p \in {<<>>, <<"80">>, <<":", "8081">>, <<"8081">>}}

InitStart ==
    /\ cfg = NoProxyConfig
    /\ IdlePool
    /\ srv = NoServer
    /\ \E c \in StartConfigs :
          call = [fn |-> "Start", arg |-> c, res |-> IdleStart, done |-> FALSE]

NextStart ==
    \/ StartSetup
    \/ StartServe
    \/ StartReturn
    \/ StartCancel
    \/ \E x \in Servers : Watcher(x)
    \/ \E x \in Servers : ShutdownReturn(x)
    \/ StartTick
    \/ AcmeServe
    \/ AcmeServeReturn
    \/ Handshake
    \/ StartDone

\* a goroutine that can run does run, and a Shutdown returns by its deadline
StartFairness ==
    /\ WF_vars(StartSetup)
    /\ WF_vars(StartServe)
    /\ WF_vars(StartReturn)
    /\ WF_vars(AcmeServe)
    /\ WF_vars(AcmeServeReturn)
    /\ \A x \in Servers : WF_vars(Watcher(x)) /\ WF_vars(ShutdownReturn(x))

SpecStart == InitStart /\ [][NextStart]_vars /\ StartFairness

\* ------------------------------------------------- config.Load and Validate
\* a key of the file or a variable of the environment: given or not
Some(v) == [set |-> TRUE, v |-> v]

NoString == [set |-> FALSE, v |-> ""]

NoList == [set |-> FALSE, v |-> <<>>]

NoBool == [set |-> FALSE, v |-> FALSE]

Or(opt, old) == IF opt.set THEN opt.v ELSE old

\* socks5://p1:x (url.Parse: invalid port after host)
UnparseableURL == [scheme |-> "socks5", host |-> -1, user |-> ""]

UpperSchemeURL == [scheme |-> "SOCKS5", host |-> 1, user |-> ""]

ACMEConfig(enabled, domain) == [Enabled |-> enabled, Domain |-> domain]

\* the fields of config.Config that Validate reads
Config(target, listen, proxy, acme) ==
    [Target |-> target, Listen |-> listen, Proxy |-> proxy, TLS |-> [ACME |-> acme]]

DefaultConfig ==
    Config("", "0.0.0.0:8080", ProxyConfig("", 0, <<>>, ""), ACMEConfig(FALSE, ""))

ProxyTypes == {"", "direct", "socks5", "http", "https"}

Rotations == {"", "round-robin", "random"}

\* Validate without the check of proxy.rotation
ValidateAnyRotation(c) ==
    IF c.Target = "" THEN "target is required"
    ELSE IF c.Listen = "" THEN "listen is required"
    ELSE IF ToLower(c.Proxy.Type) \notin ProxyTypes THEN "unsupported proxy type"
    ELSE IF \E i \in 1..Len(c.Proxy.URLs) : ~ParseProxyURL(c.Proxy.URLs[i]).ok
    THEN "invalid proxy URL"
    ELSE IF c.TLS.ACME.Enabled /\ c.TLS.ACME.Domain = ""
    THEN "acme enabled but domain is empty"
    ELSE ""

\* Config.Validate: the error, "" for nil
Validate(c) ==
    IF c.Target = "" THEN "target is required"
    ELSE IF c.Listen = "" THEN "listen is required"
    ELSE IF ToLower(c.Proxy.Type) \notin ProxyTypes THEN "unsupported proxy type"
    ELSE IF \E i \in 1..Len(c.Proxy.URLs) : ~ParseProxyURL(c.Proxy.URLs[i]).ok
    THEN "invalid proxy URL"
    ELSE IF ToLower(c.Proxy.Rotation) \notin Rotations THEN "unsupported proxy rotation"
    ELSE IF c.TLS.ACME.Enabled /\ c.TLS.ACME.Domain = ""
    THEN "acme enabled but domain is empty"
    ELSE ""

\* parseFile: a file that is read and unmarshalled sets the keys it holds
parseFile(file, c) ==
    CASE file.kind = "unreadable" -> [err |-> "read config", cfg |-> c]
      [] file.kind = "malformed" -> [err |-> "failed to parse config", cfg |-> c]
      [] OTHER ->
            [err |-> "",
             cfg |-> Config(Or(file.keys.target, c.Target),
                            Or(file.keys.listen, c.Listen),
                            ProxyConfig(Or(file.keys.type, c.Proxy.Type),
                                        c.Proxy.Address,
                                        Or(file.keys.urls, c.Proxy.URLs),
                                        Or(file.keys.rotation, c.Proxy.Rotation)),
                            ACMEConfig(Or(file.keys.enabled, c.TLS.ACME.Enabled),
                                       Or(file.keys.domain, c.TLS.ACME.Domain)))]

\* applyEnv: a variable that is set, even to "", replaces the field
applyEnv(c, env) ==
    Config(Or(env.TARGET, c.Target),
           Or(env.LISTEN, c.Listen),
           ProxyConfig(Or(env.PROXY_TYPE, c.Proxy.Type),
                       c.Proxy.Address,
                       Or(env.PROXY_URLS, c.Proxy.URLs),
                       Or(env.PROXY_ROTATION, c.Proxy.Rotation)),
           IF env.ACME_DOMAIN.set
           THEN ACMEConfig(TRUE, env.ACME_DOMAIN.v)
           ELSE c.TLS.ACME)

\* applyOverrides: a flag replaces the field when it is not empty
applyOverrides(c, overrides) ==
    Config(IF overrides.Target # "" THEN overrides.Target ELSE c.Target,
           IF overrides.Listen # "" THEN overrides.Listen ELSE c.Listen,
           ProxyConfig(IF overrides.Proxy.Type # "" THEN overrides.Proxy.Type ELSE c.Proxy.Type,
                       c.Proxy.Address, c.Proxy.URLs, c.Proxy.Rotation),
           IF overrides.ACMEDomain # ""
           THEN ACMEConfig(TRUE, overrides.ACMEDomain)
           ELSE c.TLS.ACME)

Loading == call.fn = "Load" /\ ~call.done

\* cfg := DefaultConfig(); parseFile when a path is given
LoadFile ==
    /\ Loading
    /\ call.res.pc = "file"
    /\ LET got == IF call.arg.file.kind = "none"
                  THEN [err |-> "", cfg |-> DefaultConfig]
                  ELSE parseFile(call.arg.file, DefaultConfig)
       IN  call' = IF got.err # ""
                   THEN [call EXCEPT !.res.cfg = got.cfg, !.res.err = got.err,
                                     !.res.pc = "return", !.done = TRUE]
                   ELSE [call EXCEPT !.res.cfg = got.cfg, !.res.pc = "env"]
    /\ UNCHANGED <<proxyVars, srv>>

LoadEnv ==
    /\ Loading
    /\ call.res.pc = "env"
    /\ call' = [call EXCEPT !.res.cfg = applyEnv(@, call.arg.env), !.res.pc = "overrides"]
    /\ UNCHANGED <<proxyVars, srv>>

LoadOverrides ==
    /\ Loading
    /\ call.res.pc = "overrides"
    /\ call' = [call EXCEPT !.res.cfg = applyOverrides(@, call.arg.overrides),
                            !.res.pc = "validate"]
    /\ UNCHANGED <<proxyVars, srv>>

\* if err := cfg.Validate(); err != nil { return cfg, err }; return cfg, nil
LoadValidate ==
    /\ Loading
    /\ call.res.pc = "validate"
    /\ call' = [call EXCEPT !.res.validate = Validate(call.res.cfg),
                            !.res.validated = TRUE,
                            !.res.err = Validate(call.res.cfg),
                            !.res.pc = "return", !.done = TRUE]
    /\ UNCHANGED <<proxyVars, srv>>

FileKeys ==
    {[target |-> t, listen |-> l, type |-> ty, urls |-> us, rotation |-> ro,
      enabled |-> a[1], domain |-> a[2]] :
        t \in {NoString, Some("http://origin")},
        l \in {NoString, Some("")},
        ty \in {NoString} \cup {Some(x) : x \in {"direct", "socks5", "http", "https", "ftp", "SOCKS5"}},
        us \in {NoList} \cup {Some(x) : x \in {<<GoodURL(1)>>, <<GoodURL(1), BadSchemeURL>>,
                                               <<GoodURL(2), UnparseableURL>>,
                                               <<UpperSchemeURL>>, <<NoHostURL>>}},
        ro \in {NoString} \cup {Some(x) : x \in {"round-robin", "random", "spiral", "Random"}},
        a \in {<<NoBool, NoString>>, <<Some(TRUE), NoString>>,
               <<Some(TRUE), Some("example.com")>>}}

NoKeys ==
    [target |-> NoString, listen |-> NoString, type |-> NoString, urls |-> NoList,
     rotation |-> NoString, enabled |-> NoBool, domain |-> NoString]

\* no path given, a file that cannot be read or parsed, a file with keys
Files ==
    {[kind |-> k, keys |-> NoKeys] : k \in {"none", "unreadable", "malformed"}}
    \cup {[kind |-> "ok", keys |-> ks] : ks \in FileKeys}

NoEnv ==
    [TARGET |-> NoString, LISTEN |-> NoString, PROXY_TYPE |-> NoString,
     PROXY_URLS |-> NoList, PROXY_ROTATION |-> NoString, ACME_DOMAIN |-> NoString]

Envs ==
    {NoEnv,
     [NoEnv EXCEPT !.TARGET = Some("")],
     [NoEnv EXCEPT !.TARGET = Some("http://origin"), !.PROXY_TYPE = Some("HTTP"),
                   !.PROXY_ROTATION = Some("Round-Robin")],
     [NoEnv EXCEPT !.TARGET = Some("http://origin"), !.PROXY_URLS = Some(<<BadSchemeURL>>)],
     [NoEnv EXCEPT !.LISTEN = Some("127.0.0.1:9000"), !.ACME_DOMAIN = Some("")]}

NoOverrides == [Target |-> "", Listen |-> "", Proxy |-> [Type |-> ""], ACMEDomain |-> ""]

OverridesSet ==
    {NoOverrides,
     [NoOverrides EXCEPT !.Target = "http://origin", !.Proxy.Type = "ftp"],
     [NoOverrides EXCEPT !.Target = "http://origin", !.Listen = ":9090",
                         !.ACMEDomain = "example.org"]}

NotLoaded == [pc |-> "file", cfg |-> DefaultConfig, err |-> "", validate |-> "", validated |-> FALSE]

InitLoad ==
    /\ cfg = NoProxyConfig
    /\ IdlePool
    /\ srv = NoServer
    /\ \E f \in Files, e \in Envs, o \in OverridesSet :
          call = [fn |-> "Load", arg |-> [file |-> f, env |-> e, overrides |-> o],
                  res |-> NotLoaded, done |-> FALSE]

NextLoad ==
    \/ LoadFile
    \/ LoadEnv
    \/ LoadOverrides
    \/ LoadValidate

SpecLoad == InitLoad /\ [][NextLoad]_vars

\* --------------------------------------------- GetProxies applied on its own
UserURL == [scheme |-> "http", host |-> 2, user |-> "user"]

LegacyTypes == {"", "direct", "DIRECT", "socks5", "SOCKS5", "http", "ftp"}

URLLists ==
    {GoodURLs(n) : n \in 0..MaxEntries}
    \cup {<<GoodURL(1), BadSchemeURL>>, <<UnparseableURL, GoodURL(2)>>,
          <<UpperSchemeURL, UserURL>>, <<NoHostURL>>}

\* the proxy sections GetProxies is run on: legacy fields and URL lists
DescriptorConfigs ==
    {[ProxyConfig(t, a, us, "") EXCEPT !.Auth.Username = u] :
        t \in LegacyTypes, a \in {0, 9}, u \in {"", "user"}, us \in URLLists}

InitGetProxies ==
    /\ cfg = NoProxyConfig
    /\ IdlePool
    /\ srv = NoServer
    /\ \E c \in DescriptorConfigs :
          call = [fn |-> "GetProxies", arg |-> c,
                  res |-> [ok |-> FALSE, proxies |-> <<>>], done |-> FALSE]

GetProxiesReturn ==
    /\ call.fn = "GetProxies"
    /\ ~call.done
    /\ call' = [call EXCEPT !.res = GetProxies(call.arg), !.done = TRUE]
    /\ UNCHANGED <<proxyVars, srv>>

NextGetProxies == GetProxiesReturn

SpecGetProxies == InitGetProxies /\ [][NextGetProxies]_vars

\* ------------------------------- NewTransport on two spellings of one type
Spellings ==
    {<<"direct", "direct">>, <<"Direct", "direct">>, <<"DIRECT", "direct">>,
     <<"socks5", "socks5">>, <<"SOCKS5", "socks5">>,
     <<"http", "http">>, <<"HTTP", "http">>,
     <<"https", "https">>, <<"HTTPS", "https">>}

\* NewTransport is NewProxyPool
NewTransport(c) == NewProxyPool(c)

InitSpelling ==
    /\ cfg = NoProxyConfig
    /\ IdlePool
    /\ srv = NoServer
    /\ \E s \in Spellings, a \in {0, 9}, u \in {"", "user"}, r \in {"", "random", "Random"} :
          call = [fn |-> "NewTransport",
                  arg |-> [k \in {"written", "lower"} |->
                              [ProxyConfig(IF k = "written" THEN s[1] ELSE s[2], a, <<>>, r)
                                  EXCEPT !.Auth.Username = u]],
                  res |-> [k \in {"written", "lower"} |-> NilPool],
                  done |-> [k \in {"written", "lower"} |-> FALSE]]

\* NewTransport returns for one of the two spellings
NewTransportReturn(k) ==
    /\ call.fn = "NewTransport"
    /\ ~call.done[k]
    /\ call' = [call EXCEPT !.res[k] = NewTransport(call.arg[k]), !.done[k] = TRUE]
    /\ UNCHANGED <<proxyVars, srv>>

NextSpelling == \E k \in {"written", "lower"} : NewTransportReturn(k)

SpecSpelling == InitSpelling /\ [][NextSpelling]_vars

\* ------------------------------------------- dispatches that run to their end
RetryConfigs ==
    {ProxyConfig("", 0, GoodURLs(n), rot) :
        n \in 0..MaxEntries, rot \in {"round-robin", "random"}}

InitRetry == Init /\ cfg \in RetryConfigs

InFlight == {r \in Requests : req[r].pc \in {"select", "attempt", "fast"}}

\* a RoundTrip is called while the counter leaves room for its selections
RetryBegin(r) ==
    /\ rotation = "random" \/ counter + Size * (Cardinality(InFlight) + 1) <= MaxCounter
    /\ RoundTripBegin(r)

NextRetry ==
    \/ Construct
    \/ RetryBegin(1)
    \/ RoundTripSelect(1)
    \/ RoundTripAttempt(1)
    \/ RoundTripFast(1)
    \/ RoundTripReturn(1)

\* the goroutine of a RoundTrip goes on and every delegated round trip returns
RetryFairness ==
    /\ WF_vars(RoundTripSelect(1))
    /\ WF_vars(RoundTripAttempt(1))
    /\ WF_vars(RoundTripFast(1))

SpecRetry == InitRetry /\ [][NextRetry]_vars /\ RetryFairness

\* ------------------------- callers beside each other and beside the probes
VisibilityConfigs == {ProxyConfig("", 0, GoodURLs(n), "random") : n \in 1..MaxHealthEntries}

InitVisibility == Init /\ cfg \in VisibilityConfigs

NextVisibility ==
    \/ Construct
    \/ \E r \in Requests : RoundTripBeginGet(r)
    \/ \E r \in Requests : RoundTripSelect(r)
    \/ \E r \in Requests : RoundTripAttemptBasic(r)
    \/ \E r \in Requests : RoundTripFastBasic(r)
    \/ \E r \in Requests : RoundTripReturn(r)
    \/ StartHealthCheck
    \/ TickerFire
    \/ \E e \in Indices : CheckProxyResponseBasic(e)
    \/ \E e \in Indices : CheckProxyRecover(e)
    \/ RoundEnd
    \/ LogHealthSummary

SpecVisibility == InitVisibility /\ [][NextVisibility]_vars

\* ------------------ concurrent callers and nextTransport on one counter
InitCounter == Init /\ cfg \in ConcurrentConfigs

NextCounter ==
    \/ Construct
    \/ \E r \in Requests : RoundTripBeginGet(r)
    \/ \E r \in Requests : RoundTripSelect(r)
    \/ \E r \in Requests : RoundTripAttemptBasic(r)
    \/ \E r \in Requests : RoundTripFastBasic(r)
    \/ \E r \in Requests : RoundTripReturn(r)
    \/ NextTransport

SpecCounter == InitCounter /\ [][NextCounter]_vars

\* ------------------------------------------------------ selection (C39)
\* pools of one to MaxEntries proxies under either policy
SelectConfigs ==
    {ProxyConfig("", 0, GoodURLs(n), rot) :
        n \in 1..MaxEntries, rot \in {"round-robin", "random"}}

InitSelect == Init /\ cfg \in SelectConfigs

\* selectProxyIndex is called over the entries with some of them tried and
\* one at least left: lines 346-364; the counter wraps at its width
SelectProxyIndexCall ==
    /\ phase = "ok"
    /\ \E tried \in (SUBSET (1..Size)) \ {1..Size} :
         \E rnd \in 0..(Size - Cardinality(tried) - 1) :
            call' = [fn |-> "selectProxyIndex",
                     arg |-> [entries |-> AllEntries, tried |-> tried, counter |-> counter],
                     res |-> selectProxyIndex(AllEntries, tried, counter, rnd),
                     done |-> TRUE]
    /\ counter' = IF rotation = "random" THEN counter ELSE Uint64(counter + 1)
    /\ UNCHANGED <<poolVars, healthVars, now, req, probeVars, ntResult, selSeq, clean,
                   logVars, stopVars, srv>>

\* nextTransport is called: lines 397-433; the counter wraps at its width
NextTransportCall ==
    /\ phase = "ok"
    /\ LET healthyEntries == nextTransportEntries
       IN  /\ \E rnd \in 0..(Len(healthyEntries) - 1) :
                call' = [fn |-> "nextTransport",
                         arg |-> [entries |-> healthyEntries, tried |-> {}, counter |-> counter],
                         res |-> nextTransportPick(healthyEntries, counter, rnd),
                         done |-> TRUE]
           /\ counter' = IF rotation = "random" \/ Len(healthyEntries) = 1 THEN counter
                         ELSE Uint64(counter + 1)
    /\ UNCHANGED <<poolVars, healthVars, now, req, probeVars, ntResult, selSeq, clean,
                   logVars, stopVars, srv>>

NextSelect ==
    \/ Construct
    \/ SelectProxyIndexCall
    \/ NextTransportCall

SpecSelect == InitSelect /\ [][NextSelect]_vars

\* ------------------------------------------- two peers, one header (C40)
\* access controls that tell the forwarded address IP(4, 1) from the peers
TrustControls ==
    {NilAccessControl} \cup
    {NewAccessControl(AccessConfig(al, bl)).ac :
        al \in {<<>>, <<Cidr(4, 1, AddrBits)>>, <<Cidr(4, 2, AddrBits)>>},
        bl \in {<<>>, <<Cidr(4, 1, AddrBits)>>, <<Cidr(6, 3, AddrBits)>>}}

\* the peer addresses of the two connections
TrustPeers ==
    {<<Lit(IP(4, 2)), Ch(":"), Ch("p")>>,
     <<Lit(IP(4, 1)), Ch(":"), Ch("p")>>,
     <<Ch("["), Lit(IP(6, 3)), Ch("]"), Ch(":"), Ch("p")>>,
     <<Lit(IP(4, 2))>>}

Peers == {"a", "b"}

\* the handler accessMiddleware(ac) returns, run on a request with the
\* header xff from the peer remoteAddr: "403" or "forwarded"
AccessDecision(ac, xff, remoteAddr) ==
    LET s == [IdleServer([Access |-> AccessConfig(<<>>, <<>>),
                          CORS |-> CORSConfig(<<"*">>, FALSE, 600)], ac,
                         chain(<<"mux">>, <<"access">>))
                 EXCEPT !.pc = "down", !.at = 1,
                        !.r = InboundRequest("GET", "/any", "", xff, remoteAddr)]
        t == accessMiddleware(Enter(s, "access"))
    IN  IF t.resp.status = 403 THEN "403"
        ELSE IF t.at = s.at + 1 THEN "forwarded"
        ELSE ""

\* two requests with the same X-Forwarded-For arrive from two peers
InitTrust ==
    /\ cfg = NoProxyConfig
    /\ IdlePool
    /\ srv = NoServer
    /\ \E ac \in TrustControls, x \in XFFValues, ra \in [Peers -> TrustPeers] :
          call = [fn |-> "accessMiddleware",
                  arg |-> [ac |-> ac, xff |-> x, remoteAddr |-> ra],
                  res |-> [k \in Peers |-> ""],
                  done |-> [k \in Peers |-> FALSE]]

\* the access layer has decided the request of peer k
AccessDecide(k) ==
    /\ call.fn = "accessMiddleware"
    /\ ~call.done[k]
    /\ call' = [call EXCEPT
                  !.res[k] = AccessDecision(call.arg.ac, call.arg.xff, call.arg.remoteAddr[k]),
                  !.done[k] = TRUE]
    /\ UNCHANGED <<proxyVars, srv>>

NextTrust == \E k \in Peers : AccessDecide(k)

SpecTrust == InitTrust /\ [][NextTrust]_vars

TypeOK ==
    /\ phase \in {"new", "ok", "failed"}
    /\ counter \in 0..MaxCounter
    /\ now \in 1..MaxTime
    /\ \A i \in Indices : healthy[i] \in BOOLEAN

\* ---------------------------------------------------------------- claims
\* the errors that are timeouts (context deadline, I/O deadline, net.Error
\* with Timeout() true)
TimeoutErrs == {"ctxDeadline", "osDeadline", "netTimeout"}

IsTimeoutOut(o) == o.kind = "err" /\ o.err \in TimeoutErrs

\* the dispatch of q goes through the retry loop
MultiCandidate(q) == q.pc # "idle" /\ Len(q.entries) > 1 /\ ~isDirect

\* C1: in a three-entry round-robin pool with every entry healthy and a
\* fresh counter, where p1 times out and the others answer, one RoundTrip
\* attempts p1, marks it unhealthy with a non-empty lastError, then attempts
\* p2 and returns p2's response.
C1TimeoutFailover ==
    LET q == req[1]
        p1TimesOut ==
            \A i \in 1..Len(q.attempts) :
                IF q.attempts[i].entry = 1
                THEN IsTimeoutOut(q.attempts[i].out)
                ELSE q.attempts[i].out.kind = "resp"
    IN  (/\ q.pc = "done"
         /\ Size = 3
         /\ rotation = "round-robin"
         /\ q.entries = <<1, 2, 3>>
         /\ ~q.fallback
         /\ ~q.body.fails
         /\ counter = Len(q.attempts)
         /\ p1TimesOut)
        => /\ Len(q.attempts) = 2
           /\ q.attempts[1].entry = 1
           /\ q.attempts[2].entry = 2
           /\ q.result.kind = "resp"
           /\ q.result.via = 2
           /\ ~healthy[1]
           /\ lastError[1] # ""

\* C2: in a multi-candidate dispatch an attempt that fails with an error
\* that is not a timeout is the last attempt and its error is returned as it
\* is; an attempt that gets a response, whatever the status, is the last
\* attempt and the response is returned unchanged.
C2FirstFailureWins ==
    \A r \in Requests :
        LET q == req[r]
        IN  MultiCandidate(q) =>
              \A i \in 1..Len(q.attempts) :
                  LET a == q.attempts[i]
                  IN  ~IsTimeoutOut(a.out) =>
                        /\ i = Len(q.attempts)
                        /\ q.pc = "done"
                        /\ q.result = [kind |-> a.out.kind, status |-> a.out.status,
                                       err |-> a.out.err, wrap |-> "", via |-> a.entry]

C2Witness ==
    /\ req[1].pc = "done"
    /\ Len(req[1].attempts) = 2
    /\ IsTimeoutOut(req[1].attempts[1].out)
    /\ req[1].attempts[2].out = Fail("refused")
    /\ req[1].result.err = "refused"

\* C6: in a multi-candidate dispatch of a request with a body the pool reads
\* the original reader once, before the first attempt; every attempt, the
\* first and each retry, receives exactly the original bytes; when reading
\* the original fails RoundTrip returns the read error and attempts nothing.
C6BodyReplay ==
    \A r \in Requests :
        LET q == req[r]
        IN  (MultiCandidate(q) /\ q.body.kind = "reader") =>
              /\ q.poolReads = 1
              /\ \A i \in 1..Len(q.attempts) : q.attempts[i].recv = q.body.bytes
              /\ q.body.fails =>
                    /\ q.attempts = <<>>
                    /\ q.pc = "done"
                    /\ q.result.kind = "err"
                    /\ q.result.wrap = "read request body"

C6Witness ==
    /\ MultiCandidate(req[1])
    /\ req[1].body.bytes # <<>>
    /\ Len(req[1].attempts) = 2
    /\ IsTimeoutOut(req[1].attempts[1].out)
    /\ req[1].attempts[2].recv = req[1].body.bytes

\* C7: a dispatch whose snapshot has one entry, or whose pool is direct,
\* delegates to that entry once, selects nothing, retries nothing and never
\* reads or buffers the body itself; in a single-entry pool nextTransport
\* always returns the one transport.
C7FastPath ==
    /\ \A r \in Requests :
          LET q == req[r]
          IN  (q.pc # "idle" /\ (Len(q.entries) = 1 \/ isDirect)) =>
                /\ q.poolReads = 0
                /\ ~q.hasBuf
                /\ q.tried = {}
                /\ q.pc \in {"fast", "done"}
                /\ q.pc = "fast" => q.attempts = <<>>
                /\ q.pc = "done" =>
                      /\ Len(q.attempts) = 1
                      /\ q.attempts[1].entry = q.entries[1]
                      /\ q.attempts[1].recv = q.body.bytes
                      /\ q.result = [kind |-> q.attempts[1].out.kind,
                                     status |-> q.attempts[1].out.status,
                                     err |-> q.attempts[1].out.err,
                                     wrap |-> "", via |-> q.entries[1]]
    /\ (phase = "ok" /\ Size = 1 /\ ntResult # 0) => ntResult = 1

C7Witness ==
    /\ Size > 1
    /\ Len(req[1].entries) = 1
    /\ req[1].pc = "done"
    /\ req[1].body.bytes # <<>>
    /\ IsTimeoutOut(req[1].attempts[1].out)
    /\ ntResult # 0

\* C10: NewProxyPool on a spec without descriptors builds one direct entry
\* and sets direct; otherwise one entry per descriptor in list order; every
\* entry starts healthy; when the descriptors cannot be derived or one of
\* them cannot be turned into a transport there is no pool.
C10Construction ==
    [][phase = "new" =>
         LET urls == cfg.URLs
             legacy == Len(urls) = 0 /\ cfg.Type \notin {"", "direct"}
             urlsOk == \A i \in 1..Len(urls) :
                          /\ urls[i].scheme \in {"socks5", "http", "https"}
                          /\ urls[i].host # 0
         IN  /\ (Len(urls) = 0 /\ ~legacy) =>
                   /\ phase' = "ok"
                   /\ isDirect'
                   /\ Len(entries') = 1
                   /\ entries'[1].Type = "direct"
             /\ (Len(urls) > 0 /\ urlsOk) =>
                   /\ phase' = "ok"
                   /\ ~isDirect'
                   /\ Len(entries') = Len(urls)
                   /\ \A i \in 1..Len(urls) :
                         /\ entries'[i].Type = urls[i].scheme
                         /\ entries'[i].Address = urls[i].host
             /\ (legacy /\ cfg.Address # 0) =>
                   /\ phase' = "ok"
                   /\ ~isDirect'
                   /\ Len(entries') = 1
                   /\ entries'[1].Type = cfg.Type
             /\ ((Len(urls) > 0 /\ ~urlsOk) \/ (legacy /\ cfg.Address = 0)) =>
                   /\ phase' = "failed"
                   /\ entries' = <<>>
             /\ phase' = "ok" =>
                   /\ Cardinality({i \in 1..Len(entries') : healthy'[i]}) = Len(entries')
                   /\ DOMAIN healthy' = 1..Len(entries')]_vars

C10Witness ==
    /\ phase = "ok"
    /\ ~isDirect
    /\ Size = MaxEntries
    /\ HealthyCount = Size
    /\ \A i \in Indices : entries[i].Address = i

\* the attempt that the step appends to the dispatch of r, if any
Attempted(r) == Len(req'[r].attempts) = Len(req[r].attempts) + 1

LastAttempt(q) == q.attempts[Len(q.attempts)]

\* C9: in a pool with more than one entry, whenever an attempt through a
\* healthy entry fails with a timeout the entry becomes unhealthy and its
\* lastError is the error message, whatever the number of entries that were
\* healthy when the request took its snapshot.
C9DispatchTimeout ==
    [][\A r \in Requests :
          (Size > 1 /\ Attempted(r)) =>
             LET a == LastAttempt(req'[r])
             IN  (healthy[a.entry] /\ IsTimeoutOut(a.out)) =>
                    /\ ~healthy'[a.entry]
                    /\ lastError'[a.entry] = ErrorMsg(a.out.err)]_vars

\* C9 amended: the same, for a dispatch whose snapshot has more than one
\* entry; a snapshot of one entry takes the fast path, which marks nothing.
C9DispatchTimeoutMulti ==
    [][\A r \in Requests :
          (Attempted(r) /\ MultiCandidate(req'[r])) =>
             LET a == LastAttempt(req'[r])
             IN  (healthy[a.entry] /\ IsTimeoutOut(a.out)) =>
                    /\ ~healthy'[a.entry]
                    /\ lastError'[a.entry] = ErrorMsg(a.out.err)]_vars

C9Witness ==
    /\ Size > 1
    /\ req[1].pc = "select"
    /\ ~req[1].fallback
    /\ Len(req[1].entries) = 2
    /\ Len(req[1].attempts) = 1
    /\ ~healthy[req[1].attempts[1].entry]
    /\ lastError[req[1].attempts[1].entry] = "dial tcp: i/o timeout"

\* the part of C4 about the snapshot
FallbackSnapshot ==
    /\ (phase = "ok" /\ HealthyCount = 0) =>
          /\ getHealthyEntries = AllEntries
          /\ nextTransportEntries = AllEntries
    /\ \A r \in Requests :
          /\ req[r].result.wrap # "no proxies available"
          /\ (req[r].pc # "idle" /\ req[r].fallback) => req[r].entries = AllEntries

\* C4: when no entry of a non-empty pool is healthy the snapshot of RoundTrip
\* and of nextTransport is the full entry list in pool order, dispatch never
\* fails with "no proxies available", and a request whose body can be read
\* returns the first success, otherwise fails with all-proxies-failed.
C4FallbackOriginal ==
    /\ FallbackSnapshot
    /\ \A r \in Requests :
          (req[r].pc = "done" /\ req[r].fallback /\ ~req[r].body.fails) =>
             \/ req[r].result.kind = "resp"
             \/ req[r].result.wrap = "all proxies failed"

\* C4 amended: the snapshot part as claimed; a fallback dispatch over more
\* than one entry ends with a body-read error before any attempt, or with
\* the outcome of the first attempt that did not time out (a response or a
\* non-timeout error, as it is), or with all-proxies-failed once every entry
\* has timed out.
C4Fallback ==
    /\ FallbackSnapshot
    /\ \A r \in Requests :
          LET q == req[r]
              n == Len(q.attempts)
          IN  (q.pc = "done" /\ q.fallback /\ Len(q.entries) > 1) =>
                 \/ q.result.wrap = "read request body" /\ n = 0
                 \/ /\ n >= 1
                    /\ \A i \in 1..(n - 1) : IsTimeoutOut(q.attempts[i].out)
                    /\ ~IsTimeoutOut(LastAttempt(q).out)
                    /\ q.result.kind = LastAttempt(q).out.kind
                    /\ q.result.status = LastAttempt(q).out.status
                    /\ q.result.err = LastAttempt(q).out.err
                    /\ q.result.wrap = ""
                 \/ /\ n = Len(q.entries)
                    /\ \A i \in 1..n : IsTimeoutOut(q.attempts[i].out)
                    /\ {q.attempts[i].entry : i \in 1..n} = Indices
                    /\ q.result.wrap = "all proxies failed"

C4Witness ==
    /\ HealthyCount = 0
    /\ Size = 3
    /\ req[1].pc = "done"
    /\ req[1].fallback
    /\ req[1].entries = <<1, 2, 3>>
    /\ Len(req[1].attempts) = 2
    /\ req[1].result.kind = "resp"

\* C5: while every round-robin selection is made over the full list of N >=
\* 2 entries, the selections follow pool order cyclically from the first
\* entry, and any k*N consecutive selections choose every entry exactly k
\* times, also when concurrent callers make them.
C5RoundRobinFair ==
    (phase = "ok" /\ Size >= 2 /\ rotation = "round-robin" /\ clean) =>
       /\ \A i \in 1..Len(selSeq) : selSeq[i] = ((i - 1) % Size) + 1
       /\ \A k \in 1..Len(selSeq) : \A i \in 1..Len(selSeq) :
             (i + k * Size - 1 <= Len(selSeq)) =>
                \A e \in Indices :
                   Cardinality({j \in i..(i + k * Size - 1) : selSeq[j] = e}) = k

C5Witness ==
    /\ Size = 3
    /\ clean
    /\ selSeq = <<1, 2, 3, 1, 2, 3>>
    /\ req[1].pc = "attempt"
    /\ req[2].pc = "attempt"

\* the dispatch of r returns all-proxies-failed in this step
AllFailedNow(r) ==
    /\ req[r].pc # "done"
    /\ req'[r].pc = "done"
    /\ req'[r].result.wrap = "all proxies failed"

\* the part of C3 about the attempts and the wrapped error
Exhausted(q) ==
    /\ MultiCandidate(q)
    /\ Len(q.attempts) = Len(q.entries)
    /\ {q.attempts[i].entry : i \in 1..Len(q.attempts)}
          = {q.entries[i] : i \in 1..Len(q.entries)}
    /\ \A i \in 1..Len(q.attempts) : IsTimeoutOut(q.attempts[i].out)
    /\ q.result.err = LastAttempt(q).out.err

\* C3: RoundTrip fails with all-proxies-failed only after every entry of its
\* snapshot has been attempted and has timed out; the error wraps the error
\* of the last attempt; at that point every entry of the snapshot is marked
\* unhealthy.
C3ExhaustionOriginal ==
    [][\A r \in Requests :
          AllFailedNow(r) =>
             /\ Exhausted(req'[r])
             /\ \A i \in 1..Len(req'[r].entries) : ~healthy'[req'[r].entries[i]]]_vars

\* C3 amended: the same, but at that point an entry of the snapshot is
\* unhealthy unless a probe that got a 2xx has set it healthy again after
\* the dispatch had marked it.
C3Exhaustion ==
    [][\A r \in Requests :
          AllFailedNow(r) =>
             /\ Exhausted(req'[r])
             /\ \A i \in 1..Len(req'[r].entries) :
                   \/ ~healthy'[req'[r].entries[i]]
                   \/ req'[r].entries[i] \in req'[r].restored]_vars

C3Witness ==
    /\ req[1].pc = "done"
    /\ req[1].result.wrap = "all proxies failed"
    /\ Len(req[1].attempts) = 2
    /\ req[1].attempts[1].out.err # req[1].attempts[2].out.err
    /\ req[1].result.err = req[1].attempts[2].out.err
    /\ req[1].restored = {req[1].attempts[1].entry}

Is2xx(o) == o.kind = "resp" /\ o.status >= 200 /\ o.status <= 299

\* the probe of e finishes in this step
ProbeCompletes(e) == probe[e].pc # "idle" /\ probe'[e].pc = "idle"

\* C8: when a probe of an entry completes the entry is healthy if and only
\* if the probe got a 2xx; after an error or a non-2xx status it is
\* unhealthy with a non-empty lastError, after a 2xx lastError is empty; in
\* both cases lastCheck is the time of the write.
C8ProbeTransitions ==
    [][\A e \in Indices :
          ProbeCompletes(e) =>
             /\ probe'[e].got # NoOutcome
             /\ healthy'[e] <=> Is2xx(probe'[e].got)
             /\ Is2xx(probe'[e].got) => lastError'[e] = ""
             /\ ~Is2xx(probe'[e].got) => lastError'[e] # ""
             /\ lastCheck'[e] = now]_vars

C8Witness ==
    /\ Size >= 2
    /\ probe[1].pc = "idle"
    /\ probe[1].got = Resp(301)
    /\ ~healthy[1]
    /\ lastError[1] = "unexpected status: 301"
    /\ lastCheck[1] = 2
    /\ probe[2].pc = "idle"
    /\ probe[2].got = Resp(200)
    /\ healthy[2]
    /\ lastError[2] = ""
    /\ lastCheck[2] = 1

\* C11: a direct pool is inert: StartHealthCheck returns at once, so no probe
\* task and no probe round ever exists; every dispatch takes the single-entry
\* fast path (one delegation, no selection); and the direct entry is healthy,
\* with its lastError and lastCheck untouched, in every reachable state.
C11DirectInert ==
    (phase = "ok" /\ isDirect) =>
        /\ Size = 1
        /\ healthy[1]
        /\ lastError[1] = ""
        /\ lastCheck[1] = 0
        /\ hc \in {"off", "direct"}
        /\ round = "idle"
        /\ probe[1].pc = "idle"
        /\ \A r \in Requests :
              /\ req[r].pc \in {"idle", "fast", "done"}
              /\ req[r].pc # "idle" => req[r].entries = <<1>>
              /\ Len(req[r].attempts) <= 1

C11Witness ==
    /\ phase = "ok"
    /\ isDirect
    /\ hc = "direct"
    /\ req[1].pc = "done"
    /\ Len(req[1].attempts) = 1
    /\ IsTimeoutOut(req[1].attempts[1].out)
    /\ healthy[1]

\* C12: a probe round starts one probe task per entry; the summary record of
\* the round is logged only when every probe task of the round has finished,
\* once per round, and its counts satisfy healthy + unhealthy = total = pool
\* size, also when dispatches change health flags while the entries are
\* being counted.
C12ProbeRound ==
    [][/\ (round # "running" /\ round' = "running") =>
              \A i \in Indices : probe'[i].pc = "wait"
       /\ (emitted' = emitted + 1) =>
              /\ emitted = 0
              /\ \A i \in Indices : probe[i].pc = "idle"
              /\ summary.i = Size
              /\ summary.healthy + summary.unhealthy = Size]_vars

C12Witness ==
    /\ logger
    /\ round = "summary"
    /\ Size = 2
    /\ summary.i = 2
    /\ summary.healthy = 2
    /\ ~healthy[1]

\* C13: for a pool that is not direct the first probe round starts in the
\* step that calls StartHealthCheck and every later round is started by the
\* running loop (on a tick); once the context is cancelled or stopCh is
\* closed the loop eventually returns, and after it has returned it stays
\* returned and no probe round is started.
C13LoopLifecycle ==
    /\ [][/\ (hc = "off" /\ hc' = "on") => (round' = "running" /\ ~isDirect)
          /\ (round # "running" /\ round' = "running") => (hc \in {"off", "on"} /\ hc' = "on")
          /\ hc = "returned" => (hc' = "returned" /\ round' = "idle")]_vars
    /\ (hc = "on" /\ (ctxDone \/ stopClosed)) ~> (hc = "returned")

C13Witness ==
    /\ hc = "returned"
    /\ stopClosed
    /\ ~ctxDone
    /\ round = "idle"
    /\ \E i \in Indices : lastCheck[i] # 0

\* some error of the chain is one of the two deadline sentinels or exposes
\* Timeout() and answers true
WrapsTimeout(err) ==
    \E i \in 1..Len(err) :
        \/ err[i] \in {"ctxDeadline", "osDeadline"}
        \/ IsNetError(err[i]) /\ Timeout(SubSeq(err, i, Len(err)))

\* C14: isTimeoutError(e) is true if and only if some error in the unwrap
\* chain of e is the context deadline sentinel, the I/O deadline sentinel, or
\* an error exposing Timeout() that returns true; it is false for nil and
\* for every other error.
C14TimeoutClassification ==
    (call.fn = "isTimeoutError" /\ call.done) =>
        (call.res <=> WrapsTimeout(call.arg))

\* some network of the list contains the address
InSome(list, ip) == \E i \in 1..Len(list) : Contains(list[i], ip)

\* C18: for every address inside at least one block range Allowed is false,
\* whatever the allow list holds, also when an allow range contains the same
\* address, for IPv4 and for IPv6 addresses.
C18BlockPrecedence ==
    (call.fn = "Allowed" /\ call.done) =>
        (InSome(call.arg.ac.block, call.arg.ip) => ~call.res)

C18Witness ==
    /\ call.fn = "Allowed"
    /\ call.done
    /\ call.arg.ip.fam = 6
    /\ InSome(call.arg.ac.block, call.arg.ip)
    /\ InSome(call.arg.ac.allow, call.arg.ip)
    /\ ~call.res

\* C19: Allowed(ip) is the reference decision on every input: false for a
\* nil address; else false when a block range contains it; else true when
\* the allow list is empty; else true exactly when an allow range contains
\* it.  With both lists empty every valid address is allowed.
C19AllowedDecision ==
    (call.fn = "Allowed" /\ call.done) =>
        LET a == call.arg.ac
            ip == call.arg.ip
        IN  /\ call.res <=>
                 /\ ip # NilIP
                 /\ ~InSome(a.block, ip)
                 /\ (a.allow = <<>> \/ InSome(a.allow, ip))
            /\ (a.allow = <<>> /\ a.block = <<>> /\ ip \in IPs) => call.res

C19Witness ==
    /\ call.fn = "Allowed"
    /\ call.done
    /\ Len(call.arg.ac.allow) = 2
    /\ ~Contains(call.arg.ac.allow[1], call.arg.ip)
    /\ Contains(call.arg.ac.allow[2], call.arg.ip)
    /\ call.arg.ac.block = <<>>
    /\ call.res

\* the address written in the first comma-separated element of the header,
\* spaces around it aside; nil when the element is anything else
FirstElementIP(xff) ==
    LET stop == IF \E i \in 1..Len(xff) : xff[i] = Ch(",")
                THEN CHOOSE i \in 1..Len(xff) :
                        xff[i] = Ch(",") /\ \A j \in 1..(i - 1) : xff[j] # Ch(",")
                ELSE Len(xff) + 1
        at == {k \in 1..(stop - 1) :
                  /\ xff[k].ch = "ip"
                  /\ \A j \in (1..(stop - 1)) \ {k} : xff[j] = Ch(" ")}
    IN  IF at = {} THEN NilIP ELSE xff[CHOOSE k \in at : TRUE].ip

\* no piece of str from position a to position b is one of the characters
Free(str, a, b, chars) == \A j \in a..b : str[j].ch \notin chars

\* the peer address with its port stripped: "[host]:port", "host:port", or
\* the address as it is when it has neither form
PeerIP(ra) ==
    LET n == Len(ra)
        bracketed == {e \in 2..(n - 1) :
                         /\ ra[1] = Ch("[") /\ ra[e] = Ch("]") /\ ra[e + 1] = Ch(":")
                         /\ Free(ra, 2, e - 1, {"[", "]"})
                         /\ Free(ra, e + 2, n, {"[", "]", ":"})
                         /\ \A j \in (e + 2)..n : ~HasColon(ra[j])}
        plain == {c \in 1..n :
                     /\ ra[c] = Ch(":")
                     /\ \A j \in (1..n) \ {c} : ~HasColon(ra[j])
                     /\ Free(ra, 1, n, {"[", "]"})}
    IN  IF bracketed # {}
        THEN ParseIP(SubSeq(ra, 2, (CHOOSE e \in bracketed : TRUE) - 1))
        ELSE IF plain # {}
        THEN ParseIP(SubSeq(ra, 1, (CHOOSE c \in plain : TRUE) - 1))
        ELSE ParseIP(ra)

\* C20: clientIP returns the address of the first comma-separated element of
\* X-Forwarded-For, whitespace trimmed, when the header is there and that
\* element parses as an IP; in every other case the peer address with its
\* port stripped (bracketed IPv6 too, an address without port as it is),
\* and nil when that does not parse either.
C20ClientIP ==
    (call.fn = "clientIP" /\ call.done) =>
        call.res = IF FirstElementIP(call.arg.xff) # NilIP
                   THEN FirstElementIP(call.arg.xff)
                   ELSE PeerIP(call.arg.remoteAddr)

C20Witness ==
    /\ call.fn = "clientIP"
    /\ call.done
    /\ call.arg.xff = <<Ch(" "), Lit(IP(4, 1)), Ch(",")>>
    /\ call.arg.remoteAddr = <<Ch("["), Lit(IP(6, 3)), Ch("]"), Ch(":"), Ch("p")>>
    /\ call.res = IP(4, 1)

\* s is the beginning of t
IsPrefix(s, t) == Len(s) <= Len(t) /\ SubSeq(t, 1, Len(s)) = s

\* C15: every inbound request goes through the layers in the order logging,
\* CORS, access control, handler; logging is outermost, so every request,
\* also a preflight that CORS ends with 204 and a request that access
\* control denies with 403, leaves one log record with its final status,
\* and CORS is evaluated before the access check.
C15MiddlewareOrder ==
    srv.pc = "done" =>
        /\ IsPrefix(srv.trace, <<"logging", "cors", "access", "mux">>)
        /\ Len(srv.log) = 1
        /\ srv.log[1].status = srv.resp.status

\* C16: every OPTIONS request is answered 204 by the CORS layer and reaches
\* neither the handler nor the proxy, whatever its path, Origin or client
\* IP; with allowed origins ["*"] and max age 600 the 204 carries
\* Access-Control-Allow-Origin: * and Access-Control-Max-Age: 600.
C16Preflight ==
    (srv.pc = "done" /\ srv.r.Method = "OPTIONS") =>
        /\ srv.resp.status = 204
        /\ srv.handler = ""
        /\ \A i \in 1..Len(srv.trace) : srv.trace[i] # "mux"
        /\ (srv.cfg.CORS.AllowedOrigins = <<"*">> /\ srv.cfg.CORS.MaxAgeSeconds = 600) =>
              /\ srv.resp.headers["Access-Control-Allow-Origin"] = <<"*">>
              /\ srv.resp.headers["Access-Control-Max-Age"] = <<"6", "0", "0">>

\* the access layer lets the request of s through
Permitted(s) == s.ac.nil \/ Allowed(s.ac, clientIP(s.r.XFF, s.r.RemoteAddr))

\* C17: a request that reaches the access-control layer with a client IP
\* that is not allowed gets 403 with the body "forbidden" and the next
\* handler, /healthz or the reverse proxy, is not invoked for it; a request
\* with an allowed client IP is passed on unchanged; a nil access control
\* passes every request on.
C17AccessGate ==
    /\ [](srv.handler # "" => Permitted(srv))
    /\ [][(srv.pc = "down" /\ Layer = "access") =>
             IF Permitted(srv)
             THEN /\ srv'.pc = "down"
                  /\ srv'.chain[srv'.at] = srv.chain[srv.at + 1]
                  /\ srv'.r = srv.r
                  /\ srv'.resp = srv.resp
             ELSE /\ srv'.pc = "done"
                  /\ srv'.resp.status = 403
                  /\ srv'.resp.body.text = "forbidden"
                  /\ srv'.handler = ""
                  /\ srv'.trace = <<"access">>]_vars

C17Witness ==
    /\ srv.pc = "done"
    /\ ~srv.ac.nil
    /\ srv.r.Path = "/healthz"
    /\ srv.resp.status = 403
    /\ srv.handler = ""

\* ------------------------------------------------------------------- C21
\* the layer named has handled the request in flight
Entered(layer) ==
    /\ srv.pc \in {"down", "up", "done"}
    /\ \E i \in 1..Len(srv.trace) : srv.trace[i] = layer

\* the headers that grant access to an origin
GrantHeaders == HeaderNames \ {"Access-Control-Max-Age"}

\* the request's Origin equals a configured origin, case-insensitively, the
\* configured origin taken without the whitespace around it
OriginMatches(c, origin) ==
    \E i \in 1..Len(c.AllowedOrigins) : EqualFold(TrimSpaceStr(c.AllowedOrigins[i]), origin)

\* the request went on to the handler behind the CORS layer
Forwarded == (srv.pc = "down" /\ Layer = "mux") \/ Entered("mux")

\* C21: the Allow-Origin, credentials, expose, allowed-headers and
\* allow-methods headers are emitted only when the request Origin matches a
\* configured origin case-insensitively or the configured list is ["*"]; the
\* Allow-Origin value is * only for the list ["*"] and the echoed origin
\* otherwise; a request whose Origin does not match gets none of these
\* headers and is still forwarded
C21CorsOrigin ==
    Entered("cors") =>
        LET c == srv.cfg.CORS
            o == srv.r.Origin
            hs == srv.resp.headers
            wild == c.AllowedOrigins = <<"*">>
            ok == OriginMatches(c, o) \/ wild
        IN  /\ (\E h \in GrantHeaders : hs[h] # <<>>) => ok
            /\ hs["Access-Control-Allow-Origin"] = <<"*">> => wild
            /\ (hs["Access-Control-Allow-Origin"] # <<>> /\ ~wild)
                  => hs["Access-Control-Allow-Origin"] = <<o>>
            /\ ~ok => /\ \A h \in GrantHeaders : hs[h] = <<>>
                      /\ srv.r.Method # "OPTIONS" => Forwarded

\* ------------------------------------------------------------------- C22
\* the record the logging layer wrote for the request that has just ended
Logged == srv.pc = "done" /\ Len(srv.log) > 0

\* C22: the status in the log record of a request is the first status the
\* handler set on the response writer, and 200 when it set none; statuses set
\* later do not change it
C22LoggedStatus ==
    Logged => srv.log[Len(srv.log)].status =
                 IF srv.calls = <<>> THEN 200 ELSE srv.calls[1]

\* ------------------------------------------------------------------- C23
\* the Director has returned
Directed == call.fn = "Director" /\ call.done

\* C23: after the Director the outgoing Host is the static host override when
\* one is configured, whatever rewrite_host says; else the host of the origin
\* URL when rewrite_host is set; else the Host the client sent
C23HostPrecedence ==
    Directed =>
        call.res.r.Host =
            IF call.arg.cfg.HostName # "" THEN call.arg.cfg.HostName
            ELSE IF call.arg.cfg.Headers.RewriteHost THEN call.arg.target.Host
            ELSE call.arg.r.Host

\* the override has won over rewrite_host and over a Host entry of
\* headers.add
C23Witness ==
    /\ Directed
    /\ call.arg.cfg.HostName = "static.example"
    /\ call.arg.cfg.Headers.RewriteHost
    /\ Key("Host", "canon") \in DOMAIN call.arg.cfg.Headers.Add
    /\ call.arg.r.Host = "client.example"
    /\ call.res.r.Host = "static.example"

\* ------------------------------------------------------------------- C24
\* applyRewrites has returned and applyAddHeaders has not set a header yet
Rewritten ==
    /\ call.fn = "Director"
    /\ call.res.pc = "add"
    /\ call.res.todo = DOMAIN call.arg.cfg.Headers.Add

\* headers.add holds an entry for the header: a key that is not blank and
\* has the header's name as canonical form
Added(name) ==
    \E k \in DOMAIN call.arg.cfg.Headers.Add :
        TrimSpaceKey(k) # EmptyKey /\ CanonicalMIMEHeaderKey(k) = Key(name, "canon")

\* the header is the origin URL's text if the flag is set and the request
\* came with a non-empty value, and is as it came otherwise
RewrittenIf(name, flag) ==
    call.res.r.Header[Key(name, "canon")] =
        IF flag /\ HeaderGet(call.arg.r.Header, Key(name, "canon")) # <<>>
        THEN <<URLString(call.arg.target)>>
        ELSE call.arg.r.Header[Key(name, "canon")]

\* C24: the outgoing Origin (Referer) is replaced by the origin URL's string
\* form exactly when rewrite_origin (rewrite_referer) is set and the incoming
\* request has a non-empty Origin (Referer); with the flag off the header is
\* unchanged and an absent header is not added. Checked when applyRewrites
\* returns, and on the outgoing request for a header headers.add does not set
C24ConditionalRewrite ==
    /\ Rewritten =>
          /\ RewrittenIf("Origin", call.arg.cfg.Headers.RewriteOrigin)
          /\ RewrittenIf("Referer", call.arg.cfg.Headers.RewriteReferer)
    /\ Directed =>
          /\ ~Added("Origin") => RewrittenIf("Origin", call.arg.cfg.Headers.RewriteOrigin)
          /\ ~Added("Referer") => RewrittenIf("Referer", call.arg.cfg.Headers.RewriteReferer)

\* Origin has been rewritten to the text of an origin URL with a path, the
\* absent Referer has stayed absent with rewrite_referer set
C24Witness ==
    /\ Directed
    /\ call.arg.cfg.Headers.RewriteOrigin
    /\ call.arg.cfg.Headers.RewriteReferer
    /\ call.arg.r.Header[Key("Origin", "canon")] = <<<<"https", "://", "client.example">>>>
    /\ call.arg.r.Header[Key("Referer", "canon")] = <<>>
    /\ call.res.r.Header[Key("Origin", "canon")] = <<<<"http", "://", "t:8080", "/api">>>>
    /\ call.res.r.Header[Key("Referer", "canon")] = <<>>

\* ------------------------------------------------------------------- C25
\* the only entry of headers.add for its header
Alone(k) ==
    \A j \in DOMAIN call.arg.cfg.Headers.Add :
        (j # k /\ TrimSpaceKey(j) # EmptyKey)
            => CanonicalMIMEHeaderKey(j) # CanonicalMIMEHeaderKey(k)

BadGateway == [status |-> 502, headers |-> NoHeaders, body |-> [text |-> "proxy error", nl |-> TRUE]]

\* C26: whenever the pool's RoundTrip returns an error for a forwarded
\* request (a failure that is not a timeout, a timeout of the only proxy, all
\* proxies failed) the client receives 502 Bad Gateway with the body
\* "proxy error"; the response is the same for every error, so two requests
\* that differ in the error only get the same response
C26UpstreamFailure ==
    [][(srv.pc = "down" /\ srv'.pc = "done" /\ req[1].pc = "done" /\ req[1].result.kind = "err")
          => srv'.resp = BadGateway]_vars

\* both proxies have timed out, the pool has returned all-proxies-failed and
\* the client has its 502
C26Witness ==
    /\ srv.pc = "done"
    /\ srv.resp = BadGateway
    /\ Len(srv.log) = 1
    /\ srv.log[1].wrap = "all proxies failed"
    /\ Size = 2
    /\ \A i \in Indices : ~healthy[i]

\* ------------------------------------------------------------------- C27
\* the main server of Start is listening
MainListening == call.fn = "Start" /\ call.res.http["main"].state = "listening"

\* C27: the main server serves TLS with the static certificate files when
\* both cert file and key file are configured, also when ACME is enabled;
\* otherwise TLS with the ACME-managed certificates when ACME is enabled;
\* otherwise plain HTTP; one of the two files alone is not static TLS
C27ServeMode ==
    MainListening =>
        LET t == call.arg.TLS
            serve == call.res.http["main"].serve
            source == call.res.handshake
        IN  IF t.CertFile # "" /\ t.KeyFile # ""
            THEN /\ serve = <<"ListenAndServeTLS", t.CertFile, t.KeyFile>>
                 /\ source # "" => source = "files"
            ELSE IF t.ACME.Enabled
            THEN /\ serve = <<"ListenAndServeTLS", "", "">>
                 /\ source # "" => source = "acme"
            ELSE serve = <<"ListenAndServe">>

\* ------------------------------------------------------------------- C28
\* the configured port without its colon, "80" when unset
PortDigits(port) ==
    IF port = <<>> THEN <<"80">>
    ELSE IF Head(port) = ":" THEN Tail(port)
    ELSE port

\* C28: the ACME HTTP-01 server exists and is served if and only if ACME is
\* enabled, on the configured port, ":80" when none is configured; when its
\* ListenAndServe stops with an error other than ErrServerClosed the error is
\* logged and the main server is left as it is; ErrServerClosed is not logged
C28AcmeServer ==
    /\ []((call.fn = "Start" /\ call.res.main # "setup") =>
            LET a == call.res.http["acme"]
                enabled == call.arg.TLS.ACME.Enabled
            IN  /\ (a.state # "none") <=> enabled
                /\ (call.res.acmeServe # "none") <=> enabled
                /\ enabled => a.Addr = <<":">> \o PortDigits(call.arg.TLS.ACME.HTTP01Port))
    /\ [][(call.fn = "Start" /\ call.res.acmeServe # "end" /\ call'.res.acmeServe = "end") =>
            /\ call'.res.main = call.res.main
            /\ call'.res.ret = call.res.ret
            /\ call'.res.http["main"] = call.res.http["main"]
            /\ call'.res.log =
                  IF call'.res.http["acme"].state = "failed"
                  THEN Append(call.res.log, [msg |-> "acme http server error",
                                             server |-> "acme", err |-> "listen"])
                  ELSE call.res.log]_vars

\* the ACME server could not bind the default port: the error is in the log
\* and the main server is listening
C28Witness ==
    /\ MainListening
    /\ call.arg.TLS.ACME.HTTP01Port = <<>>
    /\ call.res.http["acme"].Addr = <<":", "80">>
    /\ call.res.http["acme"].state = "failed"
    /\ call.res.log = <<[msg |-> "acme http server error", server |-> "acme", err |-> "listen"]>>
    /\ call.res.main = "serving"

\* ------------------------------------------------------------------- C29
\* Shutdown has been called on server x
ShutdownInitiated(x) == call.res.watch[x] \in {"shutdown", "end"}

Cancelled == call.fn = "Start" /\ call.res.ctx

\* C29: once the context is cancelled Shutdown is called on the main server
\* and on the ACME server when there is one, each with a deadline of 5
\* seconds and whatever the other Shutdown does, and Start returns; an error
\* a Shutdown returns is logged and Start never returns it
C29GracefulShutdown ==
    /\ Cancelled ~> ShutdownInitiated("main")
    /\ (Cancelled /\ call.arg.TLS.ACME.Enabled) ~> ShutdownInitiated("acme")
    /\ Cancelled ~> (call.res.main = "returned")
    /\ \A x \in Servers : (Cancelled /\ ShutdownInitiated(x)) ~> (call.res.watch[x] = "end")
    /\ [](call.fn = "Start" =>
            /\ call.res.ret \in {"", "ErrServerClosed", "listen", "keypair"}
            /\ \A x \in Servers :
                  /\ call.res.shut[x].elapsed <= ShutdownTimeout
                  /\ ShutdownInitiated(x) => call.res.ctx
                  /\ (call.res.watch[x] = "end" /\ call.res.shut[x].err # "") =>
                        \E i \in 1..Len(call.res.log) :
                            call.res.log[i] = [msg |-> "shutdown", server |-> x,
                                               err |-> call.res.shut[x].err])

\* the Shutdown of the main server has run into its deadline and the error is
\* logged, the ACME server has been shut down without an error, Start has
\* returned ErrServerClosed
C29Witness ==
    /\ call.fn = "Start"
    /\ call.res.ctx
    /\ call.res.shut["main"].err = "context deadline exceeded"
    /\ call.res.shut["main"].elapsed = ShutdownTimeout
    /\ call.res.watch["acme"] = "end"
    /\ call.res.shut["acme"].err = ""
    /\ call.res.log = <<[msg |-> "shutdown", server |-> "main", err |-> "context deadline exceeded"]>>
    /\ call.res.ret = "ErrServerClosed"

\* ------------------------------------------------------------------- C30
\* Load has run Validate on the configuration it built
Validated == call.fn = "Load" /\ call.res.validated

\* a proxy URL that does not parse or whose scheme is not a proxy scheme
BadProxyURL(u) ==
    ~urlParse(u).ok \/ urlParse(u).Scheme \notin {"socks5", "http", "https"}

\* the conditions of the claim, proxy.type and rotation taken as written
Invalid(c) ==
    \/ c.Target = ""
    \/ c.Listen = ""
    \/ c.Proxy.Type \notin {"", "direct", "socks5", "http", "https"}
    \/ \E i \in 1..Len(c.Proxy.URLs) : BadProxyURL(c.Proxy.URLs[i])
    \/ c.Proxy.Rotation \notin {"", "round-robin", "random"}
    \/ (c.TLS.ACME.Enabled /\ c.TLS.ACME.Domain = "")

\* the same conditions, proxy.type and rotation compared in lower case
InvalidFold(c) ==
    \/ c.Target = ""
    \/ c.Listen = ""
    \/ ToLower(c.Proxy.Type) \notin {"", "direct", "socks5", "http", "https"}
    \/ \E i \in 1..Len(c.Proxy.URLs) : BadProxyURL(c.Proxy.URLs[i])
    \/ ToLower(c.Proxy.Rotation) \notin {"", "round-robin", "random"}
    \/ (c.TLS.ACME.Enabled /\ c.TLS.ACME.Domain = "")

\* Load returns the error of Validate
LoadFails == (call.done /\ call.res.validate # "") => call.res.err = call.res.validate

\* C30 as stated: Validate returns an error if and only if the target is
\* empty, or listen is empty, or proxy.type is outside {"", direct, socks5,
\* http, https}, or some proxy URL is unparseable or has a scheme outside
\* {socks5, http, https}, or rotation is outside {"", round-robin, random},
\* or ACME is enabled with an empty domain; Load returns an error whenever
\* Validate does
C30ValidationAsWritten ==
    Validated =>
        /\ (call.res.validate # "") <=> Invalid(call.res.cfg)
        /\ LoadFails

\* C30: Validate returns an error if and only if the target is empty, or
\* listen is empty, or proxy.type in lower case is outside {"", direct,
\* socks5, http, https}, or some proxy URL is unparseable or has a scheme
\* outside {socks5, http, https}, or rotation in lower case is outside
\* {"", round-robin, random}, or ACME is enabled with an empty domain; Load
\* returns an error whenever Validate does
C30Validation ==
    Validated =>
        /\ (call.res.validate # "") <=> InvalidFold(call.res.cfg)
        /\ LoadFails

\* Load has returned the error of Validate for a rotation that is in neither
\* set, on a configuration with nothing else wrong whose proxy.type is
\* written in upper case
C30Witness ==
    /\ Validated
    /\ call.done
    /\ call.res.cfg.Proxy.Type = "SOCKS5"
    /\ call.res.cfg.Proxy.Rotation = "spiral"
    /\ call.res.cfg.Target # ""
    /\ call.res.cfg.Listen # ""
    /\ call.res.cfg.Proxy.URLs = <<UpperSchemeURL>>
    /\ ~call.res.cfg.TLS.ACME.Enabled
    /\ call.res.err = "unsupported proxy rotation"

\* ------------------------------------------------------------------- C31
Derived == call.fn = "GetProxies" /\ call.done

\* the descriptor of a URL: its scheme, its host, its user
DescriptorOf(u) == [Type |-> urlParse(u).Scheme, Address |-> u.host, Username |-> u.user]

\* C31: GetProxies returns one descriptor per URL in list order whenever the
\* URL list is non-empty, whatever the legacy fields hold; for an empty URL
\* list it returns exactly one descriptor made of the legacy fields when type
\* is neither "" nor direct and the empty list otherwise; when a URL is
\* invalid it returns an error and no descriptors
C31Descriptors ==
    Derived =>
        LET c == call.arg
            r == call.res
            n == Len(c.URLs)
        IN  /\ (n > 0 /\ \A i \in 1..n : ~BadProxyURL(c.URLs[i])) =>
                  /\ r.ok
                  /\ Len(r.proxies) = n
                  /\ \A i \in 1..n : r.proxies[i] = DescriptorOf(c.URLs[i])
            /\ (n = 0 /\ c.Type \notin {"", "direct"}) =>
                  /\ r.ok
                  /\ r.proxies = <<[Type |-> ToLower(c.Type), Address |-> c.Address,
                                    Username |-> c.Auth.Username]>>
            /\ (n = 0 /\ c.Type \in {"", "direct"}) => (r.ok /\ r.proxies = <<>>)
            /\ (\E i \in 1..n : BadProxyURL(c.URLs[i])) => (~r.ok /\ r.proxies = <<>>)

\* a URL list of two next to legacy fields that are set: two descriptors
C31Witness ==
    /\ Derived
    /\ call.arg.Type = "socks5"
    /\ call.arg.Address = 9
    /\ call.arg.Auth.Username = "user"
    /\ call.arg.URLs = <<UpperSchemeURL, UserURL>>
    /\ call.res.ok
    /\ call.res.proxies = <<[Type |-> "socks5", Address |-> 1, Username |-> ""],
                            [Type |-> "http", Address |-> 2, Username |-> "user"]>>

\* ------------------------------------------------------------------- C32
BothBuilt == call.fn = "NewTransport" /\ call.done["written"] /\ call.done["lower"]

\* C32: for each of direct, socks5, http, https in any letter case
\* NewTransport succeeds whenever it succeeds for the lower-case spelling and
\* builds the same pool, a direct pool for any spelling of direct
C32CaseInsensitive ==
    BothBuilt =>
        /\ call.res["lower"].ok => call.res["written"].ok
        /\ call.res["written"] = call.res["lower"]

\* ------------------------------------------------------------------- C33
\* no entry is attempted twice and there are no more attempts than candidates
AttemptedOnce(q) ==
    /\ \A i, j \in 1..Len(q.attempts) : i # j => q.attempts[i].entry # q.attempts[j].entry
    /\ \A i \in 1..Len(q.attempts) : \E k \in 1..Len(q.entries) : q.entries[k] = q.attempts[i].entry
    /\ Len(q.attempts) <= Len(q.entries)

\* a response, a non-timeout error of an attempt, or all-proxies-failed
RetryOutcome(res) ==
    \/ res.kind = "resp"
    \/ res.kind = "err" /\ res.wrap = "" /\ res.via # 0 /\ ~isTimeoutError(res.err)
    \/ res.kind = "err" /\ res.wrap = "all proxies failed"

\* the dispatch took the single delegation of line 265 and returns what it got
Delegated(q) ==
    /\ Len(q.entries) = 1 \/ isDirect
    /\ Len(q.attempts) = 1
    /\ q.result.kind = q.attempts[1].out.kind
    /\ q.result.err = q.attempts[1].out.err
    /\ q.result.status = q.attempts[1].out.status
    /\ q.result.wrap = ""

\* the body could not be read: no attempt was made
BodyReadFailed(q) ==
    /\ q.result.kind = "err"
    /\ q.result.wrap = "read request body"
    /\ q.attempts = <<>>

Dispatching(r) == req[r].pc \in {"select", "attempt", "fast"}

\* C33 as stated: within one RoundTrip each entry of the candidate snapshot
\* is attempted at most once, the number of attempts never exceeds the
\* snapshot size, and the dispatch always terminates with either a response,
\* a non-timeout error, or all-proxies-failed
C33BoundedRetryAsWritten ==
    /\ [](\A r \in Requests :
            /\ AttemptedOnce(req[r])
            /\ req[r].pc = "done" => RetryOutcome(req[r].result))
    /\ \A r \in Requests : Dispatching(r) ~> (req[r].pc = "done")

\* C33: within one RoundTrip each entry of the candidate snapshot is
\* attempted at most once, the number of attempts never exceeds the snapshot
\* size, and the dispatch always terminates: a dispatch over more than one
\* candidate of a pool that is not direct with a response, a non-timeout
\* error, all-proxies-failed or, before any attempt, the body read failure;
\* a dispatch over one candidate or on a direct pool with whatever its one
\* delegation returned, a timeout included
C33BoundedRetry ==
    /\ [](\A r \in Requests :
            /\ AttemptedOnce(req[r])
            /\ req[r].pc = "done" =>
                  IF Len(req[r].entries) = 1 \/ isDirect
                  THEN Delegated(req[r])
                  ELSE RetryOutcome(req[r].result) \/ BodyReadFailed(req[r]))
    /\ \A r \in Requests : Dispatching(r) ~> (req[r].pc = "done")

\* every candidate of a snapshot of MaxEntries was attempted once, each
\* attempt timed out, and the dispatch ended with all-proxies-failed
C33Witness ==
    \E r \in Requests :
        /\ req[r].pc = "done"
        /\ Len(req[r].entries) = MaxEntries
        /\ Len(req[r].attempts) = MaxEntries
        /\ req[r].result.wrap = "all proxies failed"

\* ------------------------------------------------------------------- C34
\* e goes from Unhealthy to Healthy in this step
Recovers(e) == ~healthy[e] /\ healthy'[e]

\* checkProxy(e) stores healthy = true in this step, after a 2xx
ProbeSetsHealthy(e) ==
    /\ probe[e].pc = "set"
    /\ Is2xx(probe[e].got)
    /\ probe'[e].pc = "idle"

\* a delegated round trip of a dispatch returns in this step
AttemptReturns(r) ==
    /\ req[r].pc \in {"attempt", "fast"}
    /\ Len(req'[r].attempts) = Len(req[r].attempts) + 1

\* C34: an entry moves from Unhealthy to Healthy only in a step of a probe of
\* that entry that got a 2xx; the step in which an attempt of a dispatch
\* returns, a success through an unhealthy entry chosen by fallback included,
\* sets no entry healthy
C34RecoveryByProbe ==
    [][/\ \A e \in Indices : Recovers(e) => ProbeSetsHealthy(e)
       /\ \A r \in Requests : AttemptReturns(r) => \A e \in Indices : ~Recovers(e)]_vars

\* a dispatch over the fallback snapshot of two unhealthy entries got a
\* response through an entry, which is still unhealthy
C34Witness ==
    /\ req[1].pc = "done"
    /\ req[1].fallback
    /\ Len(req[1].entries) = 2
    /\ req[1].result.kind = "resp"
    /\ req[1].result.status = 200
    /\ ~healthy[req[1].result.via]
    /\ req[1].result.via \notin req[1].restored

\* ------------------------------------------------------------------- C35
\* the outcome of the delegated round trip that returns in this step
Returned(r) == req'[r].attempts[Len(req'[r].attempts)].out

\* C35: the step in which an attempt of a dispatch returns a response, or an
\* error that is not a timeout, leaves the health flag, lastError and
\* lastCheck of every entry as they were
C35AttemptFrame ==
    [][\A r \in Requests :
          (AttemptReturns(r) /\ (Returned(r).kind = "resp" \/ ~isTimeoutError(Returned(r).err))) =>
              UNCHANGED <<healthy, lastError, lastCheck>>]_vars

\* the second attempt of a dispatch was refused: its entry is healthy without
\* a lastError, the entry of the first attempt, a timeout, is marked
C35Witness ==
    /\ req[1].pc = "done"
    /\ Len(req[1].attempts) = 2
    /\ isTimeoutError(req[1].attempts[1].out.err)
    /\ req[1].attempts[2].out = Fail("refused")
    /\ req[1].result.err = "refused"
    /\ healthy[req[1].result.via]
    /\ lastError[req[1].result.via] = ""
    /\ lastCheck[req[1].result.via] = 0
    /\ ~healthy[req[1].attempts[1].entry]

\* ------------------------------------------------------------------- C36
\* C36: with a logger set, whatever a dispatch does to the entry meanwhile,
\* the probe of an entry that got a 2xx logs "proxy recovered" exactly when
\* its write changes the entry from Unhealthy to Healthy and "proxy healthy"
\* exactly when its write finds the entry Healthy
C36RecoveryLog ==
    [][\A e \in Indices :
          (ProbeSetsHealthy(e) /\ logger) =>
              /\ (probe'[e].said = "proxy recovered") <=> Recovers(e)
              /\ (probe'[e].said = "proxy healthy") <=> healthy[e]]_vars

\* ------------------------------------------------------------------- C37
\* the entries a dispatch has marked unhealthy after a timeout and that no
\* probe has set healthy since
MarkedBy(q) ==
    {q.attempts[i].entry : i \in {j \in 1..Len(q.attempts) :
          /\ Len(q.entries) > 1
          /\ q.attempts[j].out.kind = "err"
          /\ isTimeoutError(q.attempts[j].out.err)}} \ q.restored

\* RoundTrip takes its snapshot in this step
TakesSnapshot(r) == req[r].pc = "idle" /\ req'[r].pc # "idle"

SelectsInLoop(r) == req[r].pc = "select" /\ req'[r].pc = "attempt"

\* nextTransport returns a transport other than the one it returned before
NextTransportAnswers == ntResult' # ntResult

\* C38: the counter never decreases, every round-robin selection, of a
\* dispatch or of nextTransport, with one candidate or more, advances it by
\* exactly one, so no two selections observe the same value
C38Counter ==
    [][/\ counter' >= counter
       /\ rotation = "round-robin" =>
             /\ \A r \in Requests : SelectsInLoop(r) => counter' = counter + 1
             /\ NextTransportAnswers => counter' = counter + 1]_vars

\* ------------------------------------------------------------------- C39
\* a selection has returned
Selected == call.done /\ call.fn \in {"selectProxyIndex", "nextTransport"}

\* the counter the selection read is beyond the signed range
BeyondSigned == call.arg.counter >= Pow2(CounterBits - 1)

\* what the selection returned is a candidate: a position of the list that
\* was not tried (selectProxyIndex), an entry of the list (nextTransport)
InsideList ==
    IF call.fn = "selectProxyIndex"
    THEN call.res \in (1..Len(call.arg.entries)) \ call.arg.tried
    ELSE \E i \in 1..Len(call.arg.entries) : call.res = call.arg.entries[i]

\* C39: under both policies and for every value of the selection counter,
\* beyond the signed range and after a wrap included, a selection over a
\* non-empty candidate list returns an index inside the list
C39SelectionSafety == Selected => InsideList

\* C39: the selections that are safe in the code: every one under the random
\* policy, every one with a single candidate, and the round-robin ones while
\* the counter is within the signed range
C39SafeWithinSigned ==
    (/\ Selected
     /\ \/ rotation = "random"
        \/ ~BeyondSigned
        \/ Len(call.arg.entries) - Cardinality(call.arg.tried) = 1) => InsideList

\* C39: a round-robin selection made with the counter beyond the signed range
C39Beyond == Selected /\ rotation = "round-robin" /\ BeyondSigned /\ call.res = Panic

\* ------------------------------------------------------------------- C40
\* both requests of the pair have been decided
BothDecided == call.fn = "accessMiddleware" /\ \A k \in Peers : call.done[k]

\* the first element of the header, without the whitespace around it
FirstElement(xff) == TrimSpace(Split(xff)[1])

\* the header is there and its first element parses as an IP
FirstParses(xff) == xff # <<>> /\ ParseIP(FirstElement(xff)) # NilIP

\* C40: two requests with the same X-Forwarded-For whose first element
\* parses as an IP get the same decision whatever their peer addresses, and
\* the decision is the one the configured lists give for that element
C40ForwardedForTrust ==
    (BothDecided /\ FirstParses(call.arg.xff)) =>
        /\ call.res["a"] = call.res["b"]
        /\ call.res["a"] =
              IF call.arg.ac.nil \/ Allowed(call.arg.ac, ParseIP(FirstElement(call.arg.xff)))
              THEN "forwarded" ELSE "403"

\* C40: a peer that is let in on its own and one that is not send the same
\* header with a refused address first and more after it: both get 403
C40Witness ==
    /\ BothDecided
    /\ FirstParses(call.arg.xff)
    /\ Len(Split(call.arg.xff)) > 1
    /\ AccessDecision(call.arg.ac, <<>>, call.arg.remoteAddr["a"]) = "forwarded"
    /\ AccessDecision(call.arg.ac, <<>>, call.arg.remoteAddr["b"]) = "403"
    /\ call.res["a"] = "403"
    /\ call.res["b"] = "403"

====
